---- MODULE Spec2Model ----
(***************************************************************************)
(* Model of the tag consolidation engine of paperless-ai-extended:         *)
(*   - EnhancedConsolidationService (services/enhanced-consolidation-      *)
(*     service.js, first half of src/unnamed/part_000),                    *)
(*   - ConsolidationService (second half of src/unnamed/part_000 and       *)
(*     src/unnamed/part_001),                                              *)
(*   - TagMergerService (src/services/tagMergerService.js),                *)
(*   - the parts of PaperlessService (src/services/paperlessService.js)    *)
(*     that these services call.                                           *)
(*                                                                         *)
(* Strings are sequences of one-character strings.  A similarity score is  *)
(* an exact fraction <<num, den>> with den > 0, so that `>=` on scores is  *)
(* computed by cross multiplication.                                       *)
(***************************************************************************)
EXTENDS Integers, Sequences, FiniteSets, TLC

(***************************************************************************)
(* Bounds of the model.                                                    *)
(***************************************************************************)
\* longest tag list that Init enumerates exhaustively
MaxTags == 3
\* largest document_count of an enumerated tag
MaxCount == 1
\* number of two-member groups of the long tag list (exercises the chunking)
ManyGroups == 11
\* number of top-level operations one behaviour runs one after the other
\* documents in the store
NumDocs == 2
\* tag ids that documents of the store may reference
NumDocTags == 3
\* longest list of updates passed to batchUpdateDocuments
MaxUpdates == 3
\* largest batch size enumerated besides the default
MaxBatchSize == 3
\* concurrent callers of makeRequest and of ensureTagCache
NumCallers == 2
\* ensureTagCache calls of one behaviour
MaxEnsures == 4

(***************************************************************************)
(* Strings.                                                                *)
(***************************************************************************)
\* UTF-16 code unit of a character (String.prototype comparison order)
Code(c) ==
  CASE c = " " -> 32
    [] c = ":" -> 58
    [] c = "A" -> 65
    [] c = "B" -> 66
    [] c = "I" -> 73
    [] c = "R" -> 82
    [] c = "a" -> 97
    [] c = "b" -> 98
    [] c = "c" -> 99
    [] c = "d" -> 100
    [] c = "e" -> 101
    [] c = "i" -> 105
    [] c = "n" -> 110
    [] c = "o" -> 111
    [] c = "p" -> 112
    [] c = "r" -> 114
    [] c = "t" -> 116
    [] c = "v" -> 118
    [] OTHER -> 0

\* String.prototype.toLowerCase on one character
LowerChar(c) ==
  CASE c = "A" -> "a"
    [] c = "B" -> "b"
    [] c = "I" -> "i"
    [] c = "R" -> "r"
    [] OTHER -> c

ToLowerCase(s) == [i \in 1..Len(s) |-> LowerChar(s[i])]

RECURSIVE StrLess(_, _)
\* s < t on JavaScript strings: lexicographic on code units
StrLess(s, t) ==
  IF Len(t) = 0 THEN FALSE
  ELSE IF Len(s) = 0 THEN TRUE
  ELSE IF Code(Head(s)) < Code(Head(t)) THEN TRUE
  ELSE IF Code(Head(s)) > Code(Head(t)) THEN FALSE
  ELSE StrLess(Tail(s), Tail(t))

Max2(a, b) == IF a >= b THEN a ELSE b
Min2(a, b) == IF a <= b THEN a ELSE b
Min3(a, b, c) == Min2(a, Min2(b, c))

(***************************************************************************)
(* Scores: exact fractions.                                                *)
(***************************************************************************)
One == <<1, 1>>
Zero == <<0, 1>>
\* x >= y for fractions with positive denominators
ScoreGE(x, y) == x[1] * y[2] >= y[1] * x[2]
ScoreEq(x, y) == x[1] * y[2] = y[1] * x[2]

(***************************************************************************)
(* Similarity scorers.                                                     *)
(***************************************************************************)
RECURSIVE Track(_, _, _, _)
\* track[j][i] of levenshteinDistance: the edit distance between the first
\* i characters of str1 and the first j characters of str2
Track(str1, str2, j, i) ==
  IF j = 0 THEN i
  ELSE IF i = 0 THEN j
  ELSE LET indicator == IF str1[i] = str2[j] THEN 0 ELSE 1
       IN  Min3(Track(str1, str2, j, i - 1) + 1,
                Track(str1, str2, j - 1, i) + 1,
                Track(str1, str2, j - 1, i - 1) + indicator)

levenshteinDistance(str1, str2) == Track(str1, str2, Len(str2), Len(str1))

\* ConsolidationService.calculateSimilarity: normalised Levenshtein, no cache
calculateSimilarity(str1, str2) ==
  LET longerLength == Max2(Len(str1), Len(str2))
  IN  IF longerLength = 0 THEN One
      ELSE <<longerLength - levenshteinDistance(str1, str2), longerLength>>

\* TagMergerService.calculateSimilarity: lower-cases, then delegates
tagMergerSimilarity(tag1, tag2) ==
  calculateSimilarity(ToLowerCase(tag1), ToLowerCase(tag2))

\* first.replace(/\s+/g, '') of string-similarity
StripSpaces(s) == SelectSeq(s, LAMBDA c : c # " ")

\* the bigram starting at position i
Bigram(s, i) == <<s[i], s[i + 1]>>

RECURSIVE Intersect(_, _, _, _)
\* the second loop of compareTwoStrings: walks the bigrams of `second`,
\* each one consuming one unused occurrence of the same bigram of `first`;
\* used is the set of positions of `first` already consumed
Intersect(first, second, i, used) ==
  IF i > Len(second) - 1 THEN 0
  ELSE LET free == {p \in 1..(Len(first) - 1) :
                      p \notin used /\ Bigram(first, p) = Bigram(second, i)}
       IN  IF free = {} THEN Intersect(first, second, i + 1, used)
           ELSE LET p == CHOOSE q \in free : \A r \in free : q <= r
                IN  1 + Intersect(first, second, i + 1, used \cup {p})

\* stringSimilarity.compareTwoStrings (string-similarity 4.0.4), the Dice
\* coefficient on character bigrams that calculateDiceCoefficient calls
compareTwoStrings(a, b) ==
  LET first == StripSpaces(a)
      second == StripSpaces(b)
  IN  IF first = second THEN One
      ELSE IF Len(first) < 2 \/ Len(second) < 2 THEN Zero
      ELSE <<2 * Intersect(first, second, 1, {}), Len(first) + Len(second) - 2>>

\* EnhancedConsolidationService.getCacheKey: [str1, str2].sort().join('::')
getCacheKey(str1, str2) ==
  LET sorted == IF StrLess(str2, str1) THEN <<str2, str1>> ELSE <<str1, str2>>
  IN  sorted[1] \o <<":", ":">> \o sorted[2]

\* startTime: null, endTime: null
NullTime == 0

\* this.performanceStats and this.cache after resetPerformance(); the scorers
\* below read and write the fields cache, cacheHits, cacheAttempts and
\* comparisons of this record
FreshPerf ==
  [cache |-> <<>>, cacheHits |-> 0, cacheAttempts |-> 0, comparisons |-> 0,
   startTime |-> NullTime, endTime |-> NullTime]

\* Map.prototype.set
CacheSet(cache, key, value) ==
  [k \in DOMAIN cache \cup {key} |-> IF k = key THEN value ELSE cache[k]]

\* EnhancedConsolidationService.calculateDiceCoefficient on scorer state sc:
\* the value returned and the scorer state afterwards
calculateDiceCoefficient(sc, str1, str2) ==
  LET cacheKey == getCacheKey(str1, str2)
      counted == [sc EXCEPT !.comparisons = @ + 1, !.cacheAttempts = @ + 1]
  IN  IF cacheKey \in DOMAIN sc.cache
      THEN [value |-> sc.cache[cacheKey],
            sc |-> [counted EXCEPT !.cacheHits = @ + 1]]
      ELSE LET similarity == compareTwoStrings(str1, str2)
           IN  [value |-> similarity,
                sc |-> [counted EXCEPT !.cache = CacheSet(sc.cache, cacheKey, similarity)]]

\* EnhancedConsolidationService.calculateLevenshteinSimilarity on scorer state sc
calculateLevenshteinSimilarity(sc, str1, str2) ==
  LET cacheKey == getCacheKey(str1, str2)
      counted == [sc EXCEPT !.comparisons = @ + 1, !.cacheAttempts = @ + 1]
      longerLength == Max2(Len(str1), Len(str2))
  IN  IF cacheKey \in DOMAIN sc.cache
      THEN [value |-> sc.cache[cacheKey],
            sc |-> [counted EXCEPT !.cacheHits = @ + 1]]
      ELSE IF longerLength = 0 THEN [value |-> One, sc |-> counted]
      ELSE LET similarity == <<longerLength - levenshteinDistance(str1, str2), longerLength>>
           IN  [value |-> similarity,
                sc |-> [counted EXCEPT !.cache = CacheSet(sc.cache, cacheKey, similarity)]]

(***************************************************************************)
(* Entities and groupers.  An entity is [id, name, document_count]; a      *)
(* missing document_count (undefined) is the value Missing.                *)
(***************************************************************************)
Missing == -1

\* (tag.document_count || 0)
Cnt(e) == IF e.document_count = Missing THEN 0 ELSE e.document_count

RECURSIVE EnhancedInnerChained(_, _, _, _, _)
\* a j loop that compares entities[j] with the member that joined last, not
\* with the seed entities[i]
EnhancedInnerChained(entities, th, i, j, acc) ==
  IF j > Len(entities) THEN acc
  ELSE IF j \in acc.processedIndices THEN EnhancedInnerChained(entities, th, i, j + 1, acc)
  ELSE LET last == acc.similarEntities[Len(acc.similarEntities)]
           r == calculateDiceCoefficient(acc.sc, ToLowerCase(last.name),
                                         ToLowerCase(entities[j].name))
       IN  IF ScoreGE(r.value, th)
           THEN EnhancedInnerChained(entities, th, i, j + 1,
                  [processedIndices |-> acc.processedIndices \cup {j},
                   similarEntities |-> Append(acc.similarEntities, entities[j]),
                   sc |-> r.sc])
           ELSE EnhancedInnerChained(entities, th, i, j + 1, [acc EXCEPT !.sc = r.sc])

RECURSIVE EnhancedInnerUnmarked(_, _, _, _, _)
\* a j loop that adds a similar entity to the group without marking it
\* processed
EnhancedInnerUnmarked(entities, th, i, j, acc) ==
  IF j > Len(entities) THEN acc
  ELSE IF j \in acc.processedIndices THEN EnhancedInnerUnmarked(entities, th, i, j + 1, acc)
  ELSE LET r == calculateDiceCoefficient(acc.sc, ToLowerCase(entities[i].name),
                                         ToLowerCase(entities[j].name))
       IN  IF ScoreGE(r.value, th)
           THEN EnhancedInnerUnmarked(entities, th, i, j + 1,
                  [acc EXCEPT !.similarEntities = Append(@, entities[j]), !.sc = r.sc])
           ELSE EnhancedInnerUnmarked(entities, th, i, j + 1, [acc EXCEPT !.sc = r.sc])

RECURSIVE EnhancedInner(_, _, _, _, _)
\* the j loop of EnhancedConsolidationService.findSimilarEntities; acc is
\* [processedIndices, similarEntities, sc]
EnhancedInner(entities, th, i, j, acc) ==
  IF j > Len(entities) THEN acc
  ELSE IF j \in acc.processedIndices THEN EnhancedInner(entities, th, i, j + 1, acc)
  ELSE LET r == calculateDiceCoefficient(acc.sc, ToLowerCase(entities[i].name),
                                         ToLowerCase(entities[j].name))
       IN  IF ScoreGE(r.value, th)
           THEN EnhancedInner(entities, th, i, j + 1,
                  [processedIndices |-> acc.processedIndices \cup {j},
                   similarEntities |-> Append(acc.similarEntities, entities[j]),
                   sc |-> r.sc])
           ELSE EnhancedInner(entities, th, i, j + 1, [acc EXCEPT !.sc = r.sc])

RECURSIVE EnhancedOuter(_, _, _, _)
\* the i loop of EnhancedConsolidationService.findSimilarEntities; acc is
\* [processedIndices, similarGroups, sc]
EnhancedOuter(entities, th, i, acc) ==
  IF i > Len(entities) THEN acc
  ELSE IF i \in acc.processedIndices THEN EnhancedOuter(entities, th, i + 1, acc)
  ELSE LET inner == EnhancedInner(entities, th, i, i + 1,
                      [processedIndices |-> acc.processedIndices \cup {i},
                       similarEntities |-> <<entities[i]>>,
                       sc |-> acc.sc])
       IN  EnhancedOuter(entities, th, i + 1,
             [processedIndices |-> inner.processedIndices,
              similarGroups |-> IF Len(inner.similarEntities) > 1
                                THEN Append(acc.similarGroups, inner.similarEntities)
                                ELSE acc.similarGroups,
              sc |-> inner.sc])

\* EnhancedConsolidationService.findSimilarEntities: [similarGroups, sc]
findSimilarEntities(sc, entities, similarityThreshold) ==
  LET r == EnhancedOuter(entities, similarityThreshold, 1,
             [processedIndices |-> {}, similarGroups |-> <<>>, sc |-> sc])
  IN  [similarGroups |-> r.similarGroups, sc |-> r.sc]

\* entities.length below which findSimilarEntitiesOptimized always scans
\* exhaustively
AdvancedMinEntities == 5000

\* the condition under which findSimilarEntitiesOptimized delegates to
\* findSimilarEntities (the Fuse.js path needs at least 5000 entities)
UsesExhaustivePath(entities, useAdvancedAlgorithm) ==
  ~useAdvancedAlgorithm \/ Len(entities) < AdvancedMinEntities

\* EnhancedConsolidationService.findSimilarEntitiesOptimized on the
\* exhaustive path: [similarGroups, sc]
findSimilarEntitiesOptimized(sc, entities, similarityThreshold) ==
  IF Len(entities) = 0 THEN [similarGroups |-> <<>>, sc |-> sc]
  ELSE findSimilarEntities(sc, entities, similarityThreshold)

RECURSIVE ConsolidationInner(_, _, _, _, _)
\* the j loop of ConsolidationService.findSimilarEntities
ConsolidationInner(entities, th, i, j, acc) ==
  IF j > Len(entities) THEN acc
  ELSE IF j \in acc.processedIndices THEN ConsolidationInner(entities, th, i, j + 1, acc)
  ELSE IF ScoreGE(calculateSimilarity(ToLowerCase(entities[i].name),
                                      ToLowerCase(entities[j].name)), th)
       THEN ConsolidationInner(entities, th, i, j + 1,
              [processedIndices |-> acc.processedIndices \cup {j},
               similarEntities |-> Append(acc.similarEntities, entities[j])])
       ELSE ConsolidationInner(entities, th, i, j + 1, acc)

RECURSIVE ConsolidationOuter(_, _, _, _)
\* the i loop of ConsolidationService.findSimilarEntities
ConsolidationOuter(entities, th, i, acc) ==
  IF i > Len(entities) THEN acc
  ELSE IF i \in acc.processedIndices THEN ConsolidationOuter(entities, th, i + 1, acc)
  ELSE LET inner == ConsolidationInner(entities, th, i, i + 1,
                      [processedIndices |-> acc.processedIndices \cup {i},
                       similarEntities |-> <<entities[i]>>])
       IN  ConsolidationOuter(entities, th, i + 1,
             [processedIndices |-> inner.processedIndices,
              similarGroups |-> IF Len(inner.similarEntities) > 1
                                THEN Append(acc.similarGroups, inner.similarEntities)
                                ELSE acc.similarGroups])

\* ConsolidationService.findSimilarEntities
consolidationFindSimilarEntities(entities, similarityThreshold) ==
  ConsolidationOuter(entities, similarityThreshold, 1,
    [processedIndices |-> {}, similarGroups |-> <<>>]).similarGroups

RECURSIVE TagMergerInner(_, _, _, _, _)
\* the j loop of TagMergerService.groupSimilarTags; processed holds tag ids
TagMergerInner(tags, th, i, j, acc) ==
  IF j > Len(tags) THEN acc
  ELSE IF tags[j].id \in acc.processed THEN TagMergerInner(tags, th, i, j + 1, acc)
  ELSE IF ScoreGE(tagMergerSimilarity(tags[i].name, tags[j].name), th)
       THEN TagMergerInner(tags, th, i, j + 1,
              [processed |-> acc.processed \cup {tags[j].id},
               currentGroup |-> Append(acc.currentGroup, tags[j])])
       ELSE TagMergerInner(tags, th, i, j + 1, acc)

\* the test that decides whether groupSimilarTags emits currentGroup
EmitsGroup(currentGroup) == Len(currentGroup) > 0

RECURSIVE TagMergerOuter(_, _, _, _)
\* the i loop of TagMergerService.groupSimilarTags
TagMergerOuter(tags, th, i, acc) ==
  IF i > Len(tags) THEN acc
  ELSE IF tags[i].id \in acc.processed THEN TagMergerOuter(tags, th, i + 1, acc)
  ELSE LET inner == TagMergerInner(tags, th, i, i + 1,
                      [processed |-> acc.processed \cup {tags[i].id},
                       currentGroup |-> <<tags[i]>>])
       IN  TagMergerOuter(tags, th, i + 1,
             [processed |-> inner.processed,
              groups |-> IF EmitsGroup(inner.currentGroup)
                         THEN Append(acc.groups, inner.currentGroup)
                         ELSE acc.groups])

\* TagMergerService.groupSimilarTags with this.similarityThreshold = th
groupSimilarTags(tags, th) ==
  TagMergerOuter(tags, th, 1, [processed |-> {}, groups |-> <<>>]).groups

(***************************************************************************)
(* Planning: order of the groups, chunking, merge target.                  *)
(***************************************************************************)
RECURSIVE SumCnt(_)
\* group.reduce((sum, tag) => sum + (tag.document_count || 0), 0)
SumCnt(group) == IF Len(group) = 0 THEN 0 ELSE Cnt(Head(group)) + SumCnt(Tail(group))

RECURSIVE InsertGroup(_, _)
\* inserts g behind every group whose total count is not smaller (stable)
InsertGroup(sorted, g) ==
  IF Len(sorted) = 0 THEN <<g>>
  ELSE IF SumCnt(Head(sorted)) >= SumCnt(g)
       THEN <<Head(sorted)>> \o InsertGroup(Tail(sorted), g)
       ELSE <<g>> \o sorted

RECURSIVE sortGroupsByDocCount(_)
\* groups.sort((a, b) => countB - countA): descending total count; the sort
\* of Array.prototype.sort is stable
sortGroupsByDocCount(groups) ==
  IF Len(groups) = 0 THEN <<>>
  ELSE InsertGroup(sortGroupsByDocCount(SubSeq(groups, 1, Len(groups) - 1)),
                   groups[Len(groups)])

\* number of chunks the sorted groups are cut into
ChunkDivisor == 10

\* Math.ceil(sortedGroups.length / 10)
ChunkStep(n) == (n + ChunkDivisor - 1) \div ChunkDivisor

RECURSIVE ReduceTargetLatest(_, _, _)
\* a reduce that replaces max on an equal count as well (>= for >): of the
\* members with the largest count it keeps the last one
ReduceTargetLatest(group, k, max) ==
  IF k > Len(group) THEN max
  ELSE ReduceTargetLatest(group, k + 1, IF Cnt(group[k]) >= Cnt(max) THEN group[k] ELSE max)

RECURSIVE ReduceTarget(_, _, _)
\* group.reduce((max, tag) => cnt(tag) > cnt(max) ? tag : max, group[0])
ReduceTarget(group, k, max) ==
  IF k > Len(group) THEN max
  ELSE ReduceTarget(group, k + 1, IF Cnt(group[k]) > Cnt(max) THEN group[k] ELSE max)

\* the merge target of a group
TargetTag(group) == ReduceTarget(group, 1, group[1])

\* group.filter(tag => tag.id !== targetTag.id)
SourceTags(group, targetTag) == SelectSeq(group, LAMBDA tag : tag.id # targetTag.id)

\* sourceTags.map(tag => tag.id)
Ids(seq) == [k \in 1..Len(seq) |-> seq[k].id]

(***************************************************************************)
(* The store behind PaperlessService and the values its calls return.      *)
(***************************************************************************)
\* page_size of getTags and getAllDocuments
PageSize == 100

\* number of pages GET returns for n rows (one page also when n = 0)
PageCount(n) == IF n = 0 THEN 1 ELSE (n + PageSize - 1) \div PageSize

\* response.data.results of page p of a listing of rows
PageOf(rows, p) ==
  SubSeq(rows, (p - 1) * PageSize + 1, Min2(p * PageSize, Len(rows)))

\* the rows PaperlessService.getTags / getAllDocuments have concatenated
\* when the GET of page failPage throws (the catch block breaks out of the
\* while loop and the rows fetched so far are returned); failPage beyond the
\* last page: no GET fails
RowsFetched(rows, failPage) ==
  SubSeq(rows, 1, Min2((failPage - 1) * PageSize, Len(rows)))

\* the documents of the store as rows [id, tags]
DocRows(d) == [k \in 1..Len(d) |-> [id |-> k, tags |-> d[k]]]

\* PaperlessService.getAllDocuments: an Array of document rows
getAllDocuments(d, failPage) == RowsFetched(DocRows(d), failPage)

\* PaperlessService.getDocuments(): declared without parameters, so the
\* filter { tags__id: sourceId } the merges pass is dropped; it returns what
\* getAllDocuments returns
getDocuments(d, params, failPage) == getAllDocuments(d, failPage)

\* array.results for an Array returned by getTags / getDocuments: an Array
\* has no property `results`, the expression evaluates to undefined
ArrayResults(array) == [defined |-> FALSE, value |-> <<>>]

(***************************************************************************)
(* Inputs.                                                                 *)
(***************************************************************************)
\* thresholds a caller passes: -0.1, 0.5, 0.8 (the default) and 1.1
DefaultThreshold == <<8, 10>>
Thresholds == {<<-1, 10>>, <<1, 2>>, DefaultThreshold, <<11, 10>>}
InUnitInterval(th) == ScoreGE(th, Zero) /\ ScoreGE(One, th)

Services == {"enhanced", "tagMerger", "consolidation"}

\* tag names of the enumerated tag lists
Names == {<<"a", "b">>, <<"A", "b">>, <<"a", "b", "b">>, <<"b", "b">>}
Counts == {Missing} \cup (0..MaxCount)

\* ordering: 'name' of GET /tags/ (case-insensitive collation)
NameLeq(x, y) == ~StrLess(ToLowerCase(y), ToLowerCase(x))

\* tag lists of at most MaxTags tags, ordered by name, ids 1..n
SmallTagLists ==
  UNION {{[k \in 1..n |-> [id |-> k, name |-> l[k][1], document_count |-> l[k][2]]] :
            l \in {m \in [1..n -> Names \X Counts] :
                     \A k \in 1..(n - 1) : NameLeq(m[k][1], m[k + 1][1])}} :
         n \in 0..MaxTags}

Letters == <<"a", "b", "c", "d">>

\* a list of 2 * ManyGroups tags in which tag 2g-1 and tag 2g carry the same
\* two-letter name and no other tag does
ManyTagList ==
  [k \in 1..(2 * ManyGroups) |->
     LET g == (k + 1) \div 2
     IN  [id |-> k,
          name |-> <<Letters[((g - 1) \div 4) + 1], Letters[((g - 1) % 4) + 1]>>,
          document_count |-> (k % 3)]]

TagLists == SmallTagLists \cup {ManyTagList}

\* the tags Invoice (5 documents), invoice (2) and Receipt (1)
InvoiceTags ==
  <<[id |-> 1, name |-> <<"I", "n", "v", "o", "i", "c", "e">>, document_count |-> 5],
    [id |-> 2, name |-> <<"i", "n", "v", "o", "i", "c", "e">>, document_count |-> 2],
    [id |-> 3, name |-> <<"R", "e", "c", "e", "i", "p", "t">>, document_count |-> 1]>>

\* the tags a, A::a, a::a and a::a::a, in the order of their names
ScopedTags ==
  <<[id |-> 1, name |-> <<"a">>, document_count |-> 0],
    [id |-> 2, name |-> <<"A", ":", ":", "a">>, document_count |-> 0],
    [id |-> 3, name |-> <<"a", ":", ":", "a">>, document_count |-> 0],
    [id |-> 4, name |-> <<"a", ":", ":", "a", ":", ":", "a">>, document_count |-> 0]>>

\* the tags ab, Ab and bb with the counts 0, 1 and missing
CasedTags ==
  <<[id |-> 1, name |-> <<"a", "b">>, document_count |-> 0],
    [id |-> 2, name |-> <<"A", "b">>, document_count |-> 1],
    [id |-> 3, name |-> <<"b", "b">>, document_count |-> Missing]>>

NamedTagLists == {InvoiceTags, ScopedTags, CasedTags}

\* the tag list of the store while merges are called directly
FixedTags ==
  [k \in 1..NumDocTags |-> [id |-> k, name |-> <<Letters[k]>>, document_count |-> 0]]

DocTagIds == 1..NumDocTags

RECURSIVE SetRank(_, _)
\* the tag set S read as a binary number, bit id - 1 for tag id
SetRank(S, id) ==
  IF id > NumDocTags THEN 0
  ELSE (IF id \in S THEN 1 ELSE 0) + 2 * SetRank(S, id + 1)

\* the stores of NumDocs documents; the listing holds fewer than page_size
\* documents, so a store and its permutations behave alike and one store per
\* multiset of tag lists is enumerated
DocStores ==
  {d \in [1..NumDocs -> SUBSET DocTagIds] :
     \A k \in 1..(NumDocs - 1) : SetRank(d[k], 1) <= SetRank(d[k + 1], 1)}

\* the documents of the store while plan-and-merge runs are checked
FixedDocs == [k \in 1..NumDocs |-> {k}]

\* source id lists a caller passes to mergeTags: distinct ids, ascending
RECURSIVE SetToSeq(_)
SetToSeq(S) ==
  IF S = {} THEN <<>>
  ELSE LET m == CHOOSE x \in S : \A y \in S : x <= y
       IN  <<m>> \o SetToSeq(S \ {m})

SeqToSet(q) == {q[k] : k \in 1..Len(q)}

(***************************************************************************)
(* State.                                                                  *)
(***************************************************************************)
VARIABLES
  tags,        \* the tags of the store, in the order GET /tags/ lists them
  docs,        \* the documents of the store: docs[d] = tag ids of document d
  perf,        \* performanceStats and cache of the EnhancedConsolidationService
  now,         \* Date.now()
  run,         \* the processAndMergeTags[Optimized] call in progress
  merge,       \* the mergeTags call in progress
  mergeCalls,  \* the mergeTags calls of the run, in call order
  found,       \* what a direct call of a grouper returned
  prev,        \* the last mergeTags call made directly that has returned
  retries,     \* number of times that call was repeated
  scored,      \* the scorer calls made directly, before the first run
  batch,       \* the batchUpdateDocuments call in progress
  rate,        \* makeRequest callers, clock and lastRequestTime
  refresh      \* ensureTagCache callers and the refresh flags

vars ==
  <<tags, docs, perf, now, run, merge, mergeCalls, found, prev, retries, scored, batch, rate, refresh>>
store == <<tags, docs>>

IdleRun ==
  [pc |-> "idle", svc |-> "enhanced", threshold |-> DefaultThreshold,
   useAdvancedAlgorithm |-> FALSE, tagsResponse |-> <<>>, groups |-> <<>>,
   sortedGroups |-> <<>>, i |-> 0, k |-> 0, mergeCount |-> 0, mergeDetails |-> <<>>,
   outcome |-> "none", error |-> FALSE, tagsFailed |-> FALSE, tagsAttempts |-> 0,
   startedAt |-> NullTime, number |-> 0, perfAtCall |-> FreshPerf,
   stats |-> [cacheHitRate |-> Zero, comparisons |-> 0,
              elapsedNull |-> TRUE, elapsedTime |-> Zero]]

IdleMerge ==
  [pc |-> "idle", svc |-> "enhanced", caller |-> "none", targetTagId |-> 0,
   sourceTagIds |-> <<>>, response |-> <<>>, result |-> FALSE, extFailed |-> FALSE,
   docsAtCall |-> <<>>, tagsAtCall |-> <<>>, updateCalls |-> <<>>, calls |-> <<>>]

\* batchSize = 1000 of the constructor
DefaultBatchSize == 1000

\* this.MIN_REQUEST_INTERVAL = 100 (ms)
MIN_REQUEST_INTERVAL == 100
\* setTimeout(resolve, 1000) after a 429 or 5xx answer, setTimeout(resolve, 100)
\* after any other error
LongRetryWait == 1000
ShortRetryWait == 100
\* the clock advances in steps of half the interval
TickMs == MIN_REQUEST_INTERVAL \div 2

Callers == 1..NumCallers

\* a caller outside makeRequest; outcomes[k] tells whether attempt k ended in
\* a response or in an error
IdleCaller ==
  [pc |-> "idle", retries |-> 0, attempts |-> 0, waits |-> 0, timer |-> 0,
   outcomes |-> <<>>, result |-> [kind |-> "none", attempt |-> 0]]

\* Time is kept as distances: sinceLast is Date.now() - this.lastRequestTime
\* and a timer holds the time left until it is due; both are all the code
\* reads of the clock.  sinceLast stops at MIN_REQUEST_INTERVAL, which stands
\* for every longer time.  lastRequestTime = 0 of the constructor: the first
\* call comes more than MIN_REQUEST_INTERVAL after it.  sent: a request has
\* been sent; gap is the least distance in time between two requests sent so
\* far, or MIN_REQUEST_INTERVAL when they are all at least that far apart
NoGap == -1
IdleRate ==
  [sinceLast |-> MIN_REQUEST_INTERVAL, sent |-> FALSE,
   gap |-> NoGap, callers |-> [c \in Callers |-> IdleCaller]]

\* a caller outside ensureTagCache
IdleEnsurer == [pc |-> "idle", awaits |-> 0, arrivedDuring |-> 0, forceRefresh |-> FALSE]

\* tagRefreshInProgress = false, tagRefreshPromise = null (0) of the
\* constructor, and an empty tagCache; the refreshTagCache executions and
\* their promises are numbered from 1: outcome[k] is "running", "fulfilled"
\* or "rejected", cleared holds the numbers whose finally callback has run
IdleRefresh ==
  [tagRefreshInProgress |-> FALSE, tagRefreshPromise |-> 0, outcome |-> <<>>,
   cleared |-> {}, cacheFilled |-> FALSE, calls |-> 0,
   callers |-> [c \in Callers |-> IdleEnsurer]]

IdleBatch ==
  [pc |-> "idle", batchSize |-> DefaultBatchSize, updates |-> <<>>, i |-> 0, k |-> 1,
   results |-> [success |-> TRUE, updatedCount |-> 0, errors |-> <<>>],
   attempted |-> <<>>, outcomes |-> <<>>, docsAtCall |-> <<>>]

NoFound == [grouper |-> "none", threshold |-> DefaultThreshold, groups |-> <<>>]
NoPrev == [valid |-> FALSE, result |-> FALSE, extFailed |-> FALSE, docsAtCall |-> <<>>]

\* no scorer call yet: calls counts the calls, cached those of the two cached
\* scorers, pairs holds their unordered argument pairs, last is the last call
NoScored ==
  [calls |-> 0, cached |-> 0, pairs |-> {},
   last |-> [scorer |-> "none", str1 |-> <<>>, str2 |-> <<>>, key |-> <<>>, value |-> Zero]]

Quiet == run.pc = "idle" /\ merge.pc = "idle" /\ found.grouper = "none" /\ ~prev.valid

InitCommon ==
  /\ perf = FreshPerf
  /\ now = 1
  /\ run = IdleRun
  /\ merge = IdleMerge
  /\ mergeCalls = <<>>
  /\ found = NoFound
  /\ prev = NoPrev
  /\ retries = 0
  /\ scored = NoScored
  /\ batch = IdleBatch
  /\ rate = IdleRate
  /\ refresh = IdleRefresh

\* plan-and-merge runs and grouper calls over every enumerated tag list
Init ==
  /\ tags \in TagLists
  /\ docs = FixedDocs
  /\ InitCommon

\* direct mergeTags calls over every enumerated document store
InitMerge ==
  /\ tags = FixedTags
  /\ docs \in DocStores
  /\ InitCommon

(***************************************************************************)
(* mergeTags.  The three implementations (EnhancedConsolidationService,    *)
(* ConsolidationService, TagMergerService) take the same first steps: with *)
(* no source id they skip every loop and return true; otherwise they await *)
(* getDocuments for the first source id and iterate response.results.      *)
(* getDocuments returns an Array, response.results is undefined, and       *)
(* for...of over undefined throws a TypeError, which the catch block turns *)
(* into the return value false.  No updateDocument or deleteTag call is    *)
(* reached.                                                                *)
(***************************************************************************)
CalledMerge(svc, caller, targetTagId, sourceTagIds) ==
  [IdleMerge EXCEPT !.pc = "called", !.svc = svc, !.caller = caller,
                    !.targetTagId = targetTagId, !.sourceTagIds = sourceTagIds,
                    !.docsAtCall = docs, !.tagsAtCall = tags]

\* a mergeTags whose loop iterates the Array itself: every listed document
\* loses the source ids and gains the target id
DocsRewrittenFromListing(d, response, targetTagId, sourceTagIds) ==
  [k \in 1..Len(d) |->
     IF \E r \in 1..Len(response) : response[r].id = k
     THEN (d[k] \ SeqToSet(sourceTagIds)) \cup {targetTagId}
     ELSE d[k]]

\* a mergeTags that reaches its deleteTag loop: the source tags leave the store
TagsWithoutSources(t, sourceTagIds) ==
  SelectSeq(t, LAMBDA tag : tag.id \notin SeqToSet(sourceTagIds))

\* the documents of the store when the catch block of mergeTags runs: the
\* TypeError precedes the first updateDocument call
DocsAtCatch(d, response, targetTagId, sourceTagIds) == d

\* the tags of the store when the catch block of mergeTags runs: the
\* TypeError precedes the first deleteTag call
TagsAtCatch(t, sourceTagIds) == t

\* what mergeTags returns from its catch block
CatchResult == FALSE

\* the updateDocument calls an EnhancedConsolidationService.mergeTags run has
\* issued when its catch block runs: the TypeError precedes the update loop
UpdateCallsAtCatch(response, targetTagId, sourceTagIds) == <<>>

\* a mergeTags that calls deleteTag for its source ids although it has
\* issued no updateDocument call
WriteCallsDeleteOnly(svc, response, targetTagId, sourceTagIds) ==
  [k \in 1..Len(sourceTagIds) |-> [op |-> "deleteTag", id |-> sourceTagIds[k]]]

\* the updateDocument and deleteTag calls, in call order, that a mergeTags
\* run of service svc has issued when its catch block runs: none, the
\* TypeError precedes them in all three implementations
WriteCallsAtCatch(svc, response, targetTagId, sourceTagIds) == <<>>

\* a TagMergerService / ConsolidationService mergeTags whose loop iterates the
\* Array itself: every listed document loses sourceId and gains the target
NaiveDocsRewrittenFromListing(d, response, targetTagId, sourceId) ==
  [k \in 1..Len(d) |->
     IF \E r \in 1..Len(response) : response[r].id = k
     THEN (d[k] \ {sourceId}) \cup {targetTagId}
     ELSE d[k]]

\* TagMergerService.mergeTags and ConsolidationService.mergeTags: the
\* documents and the tags of the store when the catch block runs.  The
\* TypeError is thrown in the first round of the sourceId loop, before its
\* first updateDocument and its deleteTag
NaiveDocsAtCatch(d, response, targetTagId, sourceId) == d
NaiveTagsAtCatch(t, sourceId) == t

\* the store and the return value at the end of a mergeTags run of service
\* svc in which no external call fails
MergeTagsFinal(svc, d, t, targetTagId, sourceTagIds) ==
  IF Len(sourceTagIds) = 0 THEN [docs |-> d, tags |-> t, result |-> TRUE]
  ELSE LET response == getDocuments(d, sourceTagIds[1], PageCount(Len(d)) + 1)
       IN  IF svc = "enhanced"
           THEN [docs |-> DocsAtCatch(d, response, targetTagId, sourceTagIds),
                 tags |-> TagsAtCatch(t, sourceTagIds),
                 result |-> CatchResult]
           ELSE [docs |-> NaiveDocsAtCatch(d, response, targetTagId, sourceTagIds[1]),
                 tags |-> NaiveTagsAtCatch(t, sourceTagIds[1]),
                 result |-> CatchResult]

\* the page of the document listing that fails (one past the last page: no
\* failure); a call that repeats an earlier one meets no further failure
FailPages(n, repeated) ==
  IF repeated > 0 THEN {PageCount(n) + 1} ELSE 1..(PageCount(n) + 1)

\* mergeTags up to its first await
MergeCollect ==
  /\ merge.pc = "called"
  /\ IF Len(merge.sourceTagIds) = 0
     THEN /\ merge' = [merge EXCEPT !.pc = "returned", !.result = TRUE]
          /\ now' = now
     ELSE \E failPage \in FailPages(Len(docs), retries) :
            /\ merge' = [merge EXCEPT
                 !.pc = "listed",
                 !.response = getDocuments(docs, merge.sourceTagIds[1], failPage),
                 !.extFailed = (failPage <= PageCount(Len(docs)))]
            /\ now' = now + 1
  /\ UNCHANGED <<tags, docs, perf, run, mergeCalls, found, prev, retries, scored, batch, rate, refresh>>

\* for (const doc of response.results): throws, the catch block returns false
MergeIterate ==
  /\ merge.pc = "listed"
  /\ ~ArrayResults(merge.response).defined
  /\ merge' = [merge EXCEPT
       !.pc = "returned", !.result = CatchResult,
       !.updateCalls = IF merge.svc = "enhanced"
                       THEN UpdateCallsAtCatch(merge.response, merge.targetTagId,
                                               merge.sourceTagIds)
                       ELSE <<>>,
       !.calls = WriteCallsAtCatch(merge.svc, merge.response, merge.targetTagId,
                                   merge.sourceTagIds)]
  /\ docs' = IF merge.svc = "enhanced"
             THEN DocsAtCatch(docs, merge.response, merge.targetTagId, merge.sourceTagIds)
             ELSE NaiveDocsAtCatch(docs, merge.response, merge.targetTagId,
                                   merge.sourceTagIds[1])
  /\ tags' = IF merge.svc = "enhanced"
             THEN TagsAtCatch(tags, merge.sourceTagIds)
             ELSE NaiveTagsAtCatch(tags, merge.sourceTagIds[1])
  /\ UNCHANGED <<perf, now, run, mergeCalls, found, prev, retries, scored, batch, rate, refresh>>

(***************************************************************************)
(* mergeTags called directly, and called again with the same arguments.    *)
(***************************************************************************)
\* mergeTags of one of the services is called.  As in the planner, the
\* target is not among the sources
CallMergeTags(svc, targetTagId, sources) ==
  /\ Quiet
  /\ targetTagId \notin sources
  /\ merge' = CalledMerge(svc, "direct", targetTagId, SetToSeq(sources))
  /\ UNCHANGED <<tags, docs, perf, now, run, mergeCalls, found, prev, retries, scored, batch, rate, refresh>>

\* the caller receives the return value
MergeReturn ==
  /\ merge.pc = "returned"
  /\ merge.caller = "direct"
  /\ prev' = [valid |-> TRUE, svc |-> merge.svc, targetTagId |-> merge.targetTagId,
              sourceTagIds |-> merge.sourceTagIds, result |-> merge.result,
              extFailed |-> merge.extFailed, docsAtCall |-> merge.docsAtCall,
              tagsAtCall |-> merge.tagsAtCall, docs |-> docs, tags |-> tags,
              firstResult |-> IF prev.valid THEN prev.firstResult ELSE merge.result,
              firstExtFailed |-> IF prev.valid THEN prev.firstExtFailed ELSE merge.extFailed]
  /\ merge' = IdleMerge
  /\ UNCHANGED <<tags, docs, perf, now, run, mergeCalls, found, retries, scored, batch, rate, refresh>>

\* the caller repeats its call once, with the same arguments
RetryMergeTags ==
  /\ prev.valid
  /\ merge.pc = "idle"
  /\ retries = 0
  /\ retries' = retries + 1
  /\ merge' = CalledMerge(prev.svc, "direct", prev.targetTagId, prev.sourceTagIds)
  /\ UNCHANGED <<tags, docs, perf, now, run, mergeCalls, found, prev, scored, batch, rate, refresh>>

(***************************************************************************)
(* Performance monitor.                                                    *)
(***************************************************************************)
\* EnhancedConsolidationService.resetPerformance
resetPerformance(pf) == FreshPerf

\* a start of the tracking that leaves out the reset
StartTrackingOnly(pf, t) == [pf EXCEPT !.startTime = t]

\* the first two statements of processAndMergeTagsOptimized:
\* this.performanceStats.startTime = Date.now(); this.resetPerformance()
StartTracking(pf, t) == resetPerformance([pf EXCEPT !.startTime = t])

\* EnhancedConsolidationService.getPerformanceStats (memoryUsage left out);
\* cacheHitRate and elapsedTime (seconds) are fractions, elapsedNull stands
\* for elapsedTime: null
getPerformanceStats(pf) ==
  [cacheHitRate |-> IF pf.cacheAttempts > 0 THEN <<pf.cacheHits, pf.cacheAttempts>> ELSE Zero,
   comparisons |-> pf.comparisons,
   elapsedNull |-> ~(pf.endTime # NullTime /\ pf.startTime # NullTime),
   elapsedTime |-> IF pf.endTime # NullTime /\ pf.startTime # NullTime
                   THEN <<pf.endTime - pf.startTime, 1000>> ELSE Zero]

(***************************************************************************)
(* processAndMergeTagsOptimized / processAndMergeTags.                     *)
(***************************************************************************)
\* the caller starts a run; the enhanced service starts its tracking
StartRun(svc, threshold, useAdvancedAlgorithm) ==
  /\ Quiet
  /\ run' = [IdleRun EXCEPT !.pc = "getTags", !.svc = svc, !.threshold = threshold,
                            !.useAdvancedAlgorithm = useAdvancedAlgorithm,
                            !.startedAt = now, !.number = run.number,
                            !.perfAtCall = perf]
  /\ perf' = IF svc = "enhanced" THEN StartTracking(perf, now) ELSE perf
  /\ UNCHANGED <<tags, docs, now, merge, mergeCalls, found, prev, retries, scored, batch, rate, refresh>>

\* attempts getTags and getAllDocuments make for one page: they call
\* this.client.get directly, inside a try block whose catch leaves the loop
ListingAttempts == 1

\* attempts PaperlessService.makeRequest makes before it throws
MakeRequestAttempts == 3

\* await paperlessService.getTags(): an Array of the tags fetched before the
\* first failing page
GetTags ==
  /\ run.pc = "getTags"
  /\ \E failPage \in 1..(PageCount(Len(tags)) + 1) :
       run' = [run EXCEPT !.pc = "gotTags", !.tagsResponse = RowsFetched(tags, failPage),
                          !.tagsFailed = (failPage <= PageCount(Len(tags))),
                          !.tagsAttempts = ListingAttempts]
  /\ now' = now + 1
  /\ UNCHANGED <<tags, docs, perf, merge, mergeCalls, found, prev, retries, scored, batch, rate, refresh>>

\* the return statement at the end of the try block
Finished(r, pf) ==
  [r EXCEPT !.pc = "done", !.outcome = "resolved",
            !.stats = getPerformanceStats(pf)]

\* EnhancedConsolidationService: grouping, ordering of the groups; a run
\* without groups skips the loop and returns
RunPlanEnhanced ==
  /\ run.pc = "gotTags"
  /\ run.svc = "enhanced"
  /\ UsesExhaustivePath(run.tagsResponse, run.useAdvancedAlgorithm)
  /\ LET r == findSimilarEntitiesOptimized(perf, run.tagsResponse, run.threshold)
         sortedGroups == sortGroupsByDocCount(r.similarGroups)
         planned == [run EXCEPT !.groups = r.similarGroups,
                                !.sortedGroups = sortedGroups,
                                !.i = 0, !.k = 1]
     IN  IF Len(sortedGroups) = 0
         THEN /\ perf' = [r.sc EXCEPT !.endTime = now]
              /\ run' = Finished(planned, perf')
         ELSE /\ perf' = r.sc
              /\ run' = [planned EXCEPT !.pc = "loop"]
  /\ UNCHANGED <<tags, docs, now, merge, mergeCalls, found, prev, retries, scored, batch, rate, refresh>>

\* TagMergerService.processAndMergeTags: tagsResponse.results is undefined,
\* groupSimilarTags(undefined) throws on tags.length, and the method has no
\* try block: the promise rejects
RunPlanTagMerger ==
  /\ run.pc = "gotTags"
  /\ run.svc = "tagMerger"
  /\ ~ArrayResults(run.tagsResponse).defined
  /\ run' = [run EXCEPT !.pc = "done", !.outcome = "rejected"]
  /\ UNCHANGED <<tags, docs, perf, now, merge, mergeCalls, found, prev, retries, scored, batch, rate, refresh>>

\* ConsolidationService.processAndMergeTags: tagsResponse.results is
\* undefined, findSimilarEntities(undefined) throws on entities.length, and
\* the catch block returns { mergeCount: 0, mergeDetails: [], error }
RunPlanConsolidation ==
  /\ run.pc = "gotTags"
  /\ run.svc = "consolidation"
  /\ ~ArrayResults(run.tagsResponse).defined
  /\ run' = [run EXCEPT !.pc = "done", !.outcome = "resolved", !.error = TRUE,
                        !.mergeCount = 0, !.mergeDetails = <<>>]
  /\ UNCHANGED <<tags, docs, perf, now, merge, mergeCalls, found, prev, retries, scored, batch, rate, refresh>>

\* the group the loops of processAndMergeTagsOptimized have reached:
\* batchGroups = sortedGroups.slice(i, i + step), k-th group of the batch
CurrentGroup(r) == r.sortedGroups[r.i + r.k]

\* for (const group of batchGroups): target, sources, await this.mergeTags
RunCallMerge ==
  /\ run.pc = "loop"
  /\ merge.pc = "idle"
  /\ LET group == CurrentGroup(run)
         targetTag == TargetTag(group)
         sourceTags == SourceTags(group, targetTag)
     IN  /\ Len(group) > 1
         /\ merge' = CalledMerge("enhanced", "run", targetTag.id, Ids(sourceTags))
         /\ mergeCalls' = Append(mergeCalls,
                            [index |-> run.i + run.k, group |-> group,
                             targetTagId |-> targetTag.id, sourceTagIds |-> Ids(sourceTags),
                             returned |-> FALSE, success |-> FALSE])
  /\ run' = [run EXCEPT !.pc = "awaitMerge"]
  /\ UNCHANGED <<tags, docs, perf, now, found, prev, retries, scored, batch, rate, refresh>>

\* a loop that leaves a batch after its first group
NextPositionFirstOfBatch(n, i, k) == [i |-> i + ChunkStep(n), k |-> 1]

\* the position after the group at (i, k): the next group of the batch, the
\* first group of the next batch, or past the end (i >= n)
NextPosition(n, i, k) ==
  LET step == ChunkStep(n)
      batchLen == Min2(i + step, n) - i
  IN  IF k < batchLen THEN [i |-> i, k |-> k + 1] ELSE [i |-> i + step, k |-> 1]

\* a run that counts every merge it attempted
CountsEveryMerge(success) == TRUE

\* if (success): the run counts a merge only when mergeTags returned true
CountsMerge(success) == success

\* mergeTags has returned: count a success, go on with the next group, or
\* leave the loops, stop the tracking and return
RunAfterMerge ==
  /\ run.pc = "awaitMerge"
  /\ merge.pc = "returned"
  /\ merge.caller = "run"
  /\ LET n == Len(run.sortedGroups)
         pos == NextPosition(n, run.i, run.k)
         counted == IF CountsMerge(merge.result)
                    THEN [run EXCEPT
                            !.mergeCount = @ + Len(merge.sourceTagIds),
                            !.mergeDetails = Append(@, [sourceTagIds |-> merge.sourceTagIds,
                                                        targetTagId |-> merge.targetTagId])]
                    ELSE run
         moved == [counted EXCEPT !.i = pos.i, !.k = pos.k]
     IN  IF pos.i < n
         THEN /\ run' = [moved EXCEPT !.pc = "loop"]
              /\ perf' = perf
         ELSE /\ perf' = [perf EXCEPT !.endTime = now]
              /\ run' = Finished(moved, perf')
  /\ merge' = IdleMerge
  /\ mergeCalls' = [mergeCalls EXCEPT ![Len(mergeCalls)] =
                       [@ EXCEPT !.returned = TRUE, !.success = merge.result]]
  /\ UNCHANGED <<tags, docs, now, found, prev, retries, scored, batch, rate, refresh>>

(***************************************************************************)
(* The groupers called directly on a list of entities.                     *)
(***************************************************************************)
Groupers ==
  {"findSimilarEntities", "findSimilarEntitiesOptimized",
   "consolidationFindSimilarEntities", "groupSimilarTags"}

CallGrouper(grouper, threshold) ==
  /\ Quiet
  /\ UsesExhaustivePath(tags, FALSE)
  /\ LET enhanced == IF grouper = "findSimilarEntities"
                     THEN findSimilarEntities(perf, tags, threshold)
                     ELSE findSimilarEntitiesOptimized(perf, tags, threshold)
     IN  CASE grouper \in {"findSimilarEntities", "findSimilarEntitiesOptimized"} ->
                /\ found' = [grouper |-> grouper, threshold |-> threshold,
                             groups |-> enhanced.similarGroups]
                /\ perf' = enhanced.sc
           [] grouper = "consolidationFindSimilarEntities" ->
                /\ found' = [grouper |-> grouper, threshold |-> threshold,
                             groups |-> consolidationFindSimilarEntities(tags, threshold)]
                /\ perf' = perf
           [] grouper = "groupSimilarTags" ->
                /\ found' = [grouper |-> grouper, threshold |-> threshold,
                             groups |-> groupSimilarTags(tags, threshold)]
                /\ perf' = perf
  /\ UNCHANGED <<tags, docs, now, run, merge, mergeCalls, prev, retries, scored, batch, rate, refresh>>

(***************************************************************************)
(* The scorers called directly, and runs that follow one another.          *)
(***************************************************************************)
\* longest sequence of direct scorer calls
MaxCalls == 2

\* arguments of the direct scorer calls: "", ":", "::" and "ab"
ScorerStrings == {<<>>, <<":">>, <<":", ":">>, <<"a", "b">>}

CachedScorers == {"calculateDiceCoefficient", "calculateLevenshteinSimilarity"}
Scorers == CachedScorers \cup {"calculateSimilarity", "tagMergerSimilarity"}

\* the value a scorer returns on scorer state sc, and the state afterwards
Score(scorer, sc, str1, str2) ==
  CASE scorer = "calculateDiceCoefficient" -> calculateDiceCoefficient(sc, str1, str2)
    [] scorer = "calculateLevenshteinSimilarity" ->
         calculateLevenshteinSimilarity(sc, str1, str2)
    [] scorer = "calculateSimilarity" ->
         [value |-> calculateSimilarity(str1, str2), sc |-> sc]
    [] scorer = "tagMergerSimilarity" ->
         [value |-> tagMergerSimilarity(str1, str2), sc |-> sc]

CallScorer(scorer, str1, str2) ==
  /\ Quiet
  /\ run.number = 0
  /\ scored.calls < MaxCalls
  /\ LET r == Score(scorer, perf, str1, str2)
     IN  /\ perf' = r.sc
         /\ scored' = [calls |-> scored.calls + 1,
                       cached |-> scored.cached + (IF scorer \in CachedScorers THEN 1 ELSE 0),
                       pairs |-> IF scorer \in CachedScorers
                                 THEN scored.pairs \cup {{str1, str2}}
                                 ELSE scored.pairs,
                       last |-> [scorer |-> scorer, str1 |-> str1, str2 |-> str2,
                                 key |-> getCacheKey(str1, str2), value |-> r.value]]
  /\ UNCHANGED <<tags, docs, now, run, merge, mergeCalls, found, prev, retries, batch, rate, refresh>>

\* the caller has received the result of a run; one more run may follow
RunReturn ==
  /\ run.pc = "done"
  /\ run.number = 0
  /\ run' = [IdleRun EXCEPT !.number = run.number + 1]
  /\ mergeCalls' = <<>>
  /\ UNCHANGED <<tags, docs, perf, now, merge, found, prev, retries, scored, batch, rate, refresh>>

\* scorer calls and runs over the tags a, b, c (no two of them similar)
InitCache ==
  /\ tags = FixedTags
  /\ docs = FixedDocs
  /\ InitCommon

(***************************************************************************)
(* batchUpdateDocuments.                                                   *)
(***************************************************************************)
\* this.batchSize of the service: the default and small sizes
BatchSizes == (1..MaxBatchSize) \cup {DefaultBatchSize}

\* the lists of updates { id, data: { tags } } a caller passes
UpdateLists ==
  UNION {[1..n -> [id : 1..NumDocs, tags : {{NumDocTags}}]] : n \in 0..MaxUpdates}

\* what happens inside one PaperlessService.updateDocument call: every
\* request succeeds, the GET of the current document fails, the PATCH fails,
\* or the GET after the PATCH fails
UpdateOutcomes == {"updated", "getFailed", "patchFailed", "refetchFailed"}

\* the document was patched
Patched(outcome) == outcome \in {"updated", "refetchFailed"}

\* PaperlessService.updateDocument(documentId, { tags }): the tags of the
\* update are combined with the current tags of the document and patched;
\* the catch block turns every failure into the return value null, no
\* error reaches the caller
updateDocument(d, documentId, updateTags, outcome) ==
  [docs |-> IF Patched(outcome) THEN [d EXCEPT ![documentId] = @ \cup updateTags] ELSE d,
   returned |-> IF outcome = "updated" THEN "document" ELSE "null",
   threw |-> FALSE]

\* a batch loop that leaves each batch after its first update
BatchPositionFirstOfBatch(n, step, i, k) == [i |-> i + step, k |-> 1]

\* the position after the update at (i, k) of the loops
\* for (i = 0; i < n; i += step) { for (update of updates.slice(i, i + step)) }
BatchPosition(n, step, i, k) ==
  LET batchLen == Min2(i + step, n) - i
  IN  IF k < batchLen THEN [i |-> i, k |-> k + 1] ELSE [i |-> i + step, k |-> 1]

\* batchUpdateDocuments(updates) is called on a service with this batchSize
CallBatchUpdate(batchSize, updates) ==
  /\ Quiet
  /\ batch.pc = "idle"
  /\ batch' = [IdleBatch EXCEPT !.pc = "loop", !.batchSize = batchSize,
                                !.updates = updates, !.docsAtCall = docs]
  /\ UNCHANGED <<tags, docs, perf, now, run, merge, mergeCalls, found, prev, retries, scored, rate, refresh>>

\* one round of the inner loop: await updateDocument, then updatedCount++,
\* or the catch block when the call threw
BatchUpdateOne ==
  /\ batch.pc = "loop"
  /\ batch.i < Len(batch.updates)
  /\ \E outcome \in UpdateOutcomes :
       LET update == batch.updates[batch.i + batch.k]
           r == updateDocument(docs, update.id, update.tags, outcome)
           pos == BatchPosition(Len(batch.updates), batch.batchSize, batch.i, batch.k)
       IN  /\ docs' = r.docs
           /\ batch' = [batch EXCEPT
                !.results = IF r.threw
                            THEN [@ EXCEPT !.success = FALSE,
                                           !.errors = Append(@, [documentId |-> update.id])]
                            ELSE [@ EXCEPT !.updatedCount = @ + 1],
                !.attempted = Append(@, update),
                !.outcomes = Append(@, outcome),
                !.i = pos.i, !.k = pos.k]
  /\ UNCHANGED <<tags, perf, now, run, merge, mergeCalls, found, prev, retries, scored, rate, refresh>>

\* the outer loop has ended: return results
BatchReturn ==
  /\ batch.pc = "loop"
  /\ batch.i >= Len(batch.updates)
  /\ batch' = [batch EXCEPT !.pc = "done"]
  /\ UNCHANGED <<tags, docs, perf, now, run, merge, mergeCalls, found, prev, retries, scored, rate, refresh>>

(***************************************************************************)
(* findSimilarEntitiesOptimized on the Fuse.js path.  Fuse.js is a library *)
(* outside the repository: what fuse.search returns is an input of the     *)
(* model.  A result list is given by a table `fuse` that assigns a score   *)
(* or no result to an ordered pair (query entity, indexed entity); the     *)
(* list holds the indexed entities with a result, ordered by score.        *)
(***************************************************************************)
RECURSIVE Decimal(_)
\* the decimal digits of k
Decimal(k) ==
  LET digit == <<"0", "1", "2", "3", "4", "5", "6", "7", "8", "9">>[(k % 10) + 1]
  IN  IF k < 10 THEN <<digit>> ELSE Append(Decimal(k \div 10), digit)

\* the list of entities handed to the grouper: AdvancedMinEntities entities
\* with the names "e1", "e2", ...
LargeEntities ==
  [k \in 1..AdvancedMinEntities |->
     [id |-> k, name |-> <<"e">> \o Decimal(k), document_count |-> 0]]

\* batch sizes of the grouper: one entity, the default, the whole list
ApproxBatchSizes == {1, DefaultBatchSize, AdvancedMinEntities}

\* positions of the entities for which Fuse.js reports results: the first
\* entity and the two entities on either side of the first batch boundary
\* of the default batch size
FuseHot == {1, DefaultBatchSize, DefaultBatchSize + 1}

\* result.score of Fuse.js (0 is a perfect match): 1/10, and the mark of
\* a pair without a result
FuseNear == <<1, 10>>
NoResult == <<-1, 1>>

FusePairs == {pr \in FuseHot \X FuseHot : pr[1] # pr[2]}
FuseTables == [FusePairs -> {NoResult, FuseNear}]

\* the entities of a Fuse index built from the entities of the current
\* batch alone
InBatchIndex(batchStart, batchEnd, globalIndex, processedIndices, idx) ==
  /\ idx > batchStart
  /\ idx <= batchEnd
  /\ idx # globalIndex
  /\ ~(idx <= processedIndices.upTo \/ idx \in processedIndices.ahead)

\* entities.filter((_, idx) => idx !== globalIndex && !processedIndices.has(idx)):
\* whether position idx of the whole list is in the Fuse index
InFuseIndex(batchStart, batchEnd, globalIndex, processedIndices, idx) ==
  /\ idx # globalIndex
  /\ ~(idx <= processedIndices.upTo \/ idx \in processedIndices.ahead)

RECURSIVE OrderByScore(_, _, _)
\* the results for query position g over the indexed positions S, best
\* score first, equal scores in index order
OrderByScore(fuse, g, S) ==
  IF S = {} THEN <<>>
  ELSE LET best == CHOOSE j \in S :
                     \A k \in S : \/ ~ScoreGE(fuse[g, j], fuse[g, k])
                                    \/ (ScoreEq(fuse[g, j], fuse[g, k]) /\ j <= k)
       IN  <<[item |-> best, score |-> fuse[g, best]]>> \o OrderByScore(fuse, g, S \ {best})

\* fuse.search(currentName) for the entity at position g
FuseSearch(fuse, batchStart, batchEnd, g, processedIndices) ==
  IF g \notin FuseHot THEN <<>>
  ELSE OrderByScore(fuse, g,
         {j \in FuseHot \ {g} :
            /\ fuse[g, j] # NoResult
            /\ InFuseIndex(batchStart, batchEnd, g, processedIndices, j)})

\* processedIndices.has(idx); the Set is kept as the prefix 1..upTo, which
\* the rounds mark one position after the other, and the positions ahead
\* of it
HasIndex(processedIndices, idx) ==
  idx <= processedIndices.upTo \/ idx \in processedIndices.ahead

RECURSIVE Absorb(_)
\* the same Set with the prefix extended over the positions that follow it
Absorb(processedIndices) ==
  IF processedIndices.upTo + 1 \in processedIndices.ahead
  THEN Absorb([upTo |-> processedIndices.upTo + 1,
               ahead |-> processedIndices.ahead \ {processedIndices.upTo + 1}])
  ELSE processedIndices

\* processedIndices.add(idx)
AddIndex(processedIndices, idx) ==
  IF HasIndex(processedIndices, idx) THEN processedIndices
  ELSE IF idx = processedIndices.upTo + 1
       THEN Absorb([processedIndices EXCEPT !.upTo = idx])
       ELSE [processedIndices EXCEPT !.ahead = @ \cup {idx}]

RECURSIVE FuseResults(_, _, _, _)
\* for (const result of results): a result whose score is at most
\* 1 - similarityThreshold and whose entity is not yet processed joins
FuseResults(entities, th, results, acc) ==
  IF Len(results) = 0 THEN acc
  ELSE LET result == Head(results)
           limit == <<th[2] - th[1], th[2]>>
           joins == ScoreGE(limit, result.score) /\ ~HasIndex(acc.processedIndices, result.item)
       IN  FuseResults(entities, th, Tail(results),
             IF joins
             THEN [acc EXCEPT !.similarEntities = Append(@, entities[result.item]),
                              !.processedIndices = AddIndex(@, result.item)]
             ELSE acc)

\* one round of the inner loop, for the entity at position globalIndex
FuseRound(entities, th, fuse, batchStart, batchEnd, globalIndex, acc) ==
  IF HasIndex(acc.processedIndices, globalIndex) THEN acc
  ELSE LET marked == AddIndex(acc.processedIndices, globalIndex)
           r == FuseResults(entities, th,
                  FuseSearch(fuse, batchStart, batchEnd, globalIndex, marked),
                  [similarEntities |-> <<entities[globalIndex]>>, processedIndices |-> marked])
       IN  [processedIndices |-> r.processedIndices,
            similarGroups |-> IF Len(r.similarEntities) > 1
                              THEN Append(acc.similarGroups, r.similarEntities)
                              ELSE acc.similarGroups]

RECURSIVE FuseBatch(_, _, _, _, _, _, _, _)
\* the rounds lo..hi of the inner loop of one batch, in order
FuseBatch(entities, th, fuse, batchStart, batchEnd, lo, hi, acc) ==
  IF lo > hi THEN acc
  ELSE IF lo = hi THEN FuseRound(entities, th, fuse, batchStart, batchEnd, lo, acc)
  ELSE LET mid == (lo + hi) \div 2
           first == FuseBatch(entities, th, fuse, batchStart, batchEnd, lo, mid, acc)
       IN  \* the comparison evaluates the rounds lo..mid before the later ones
           IF first = acc
           THEN FuseBatch(entities, th, fuse, batchStart, batchEnd, mid + 1, hi, acc)
           ELSE FuseBatch(entities, th, fuse, batchStart, batchEnd, mid + 1, hi, first)

RECURSIVE FuseBatches(_, _, _, _, _, _, _)
\* the batches number lo..hi of the outer loop, in order; batch b covers
\* the positions b * batchSize + 1 .. min((b + 1) * batchSize, n)
FuseBatches(entities, th, fuse, batchSize, lo, hi, acc) ==
  IF lo > hi THEN acc
  ELSE IF lo = hi
       THEN LET batchStart == lo * batchSize
                batchEnd == Min2(batchStart + batchSize, Len(entities))
            IN  FuseBatch(entities, th, fuse, batchStart, batchEnd,
                          batchStart + 1, batchEnd, acc)
  ELSE LET mid == (lo + hi) \div 2
           first == FuseBatches(entities, th, fuse, batchSize, lo, mid, acc)
       IN  \* the comparison evaluates the batches lo..mid before the later ones
           IF first = acc
           THEN FuseBatches(entities, th, fuse, batchSize, mid + 1, hi, acc)
           ELSE FuseBatches(entities, th, fuse, batchSize, mid + 1, hi, first)

\* findSimilarEntitiesOptimized(entities, similarityThreshold, true) on a
\* service with this batchSize, for entities.length >= 5000
findSimilarEntitiesFuse(entities, th, batchSize, fuse) ==
  FuseBatches(entities, th, fuse, batchSize, 0,
              ((Len(entities) + batchSize - 1) \div batchSize) - 1,
              [processedIndices |-> [upTo |-> 0, ahead |-> {}],
               similarGroups |-> <<>>]).similarGroups

\* thresholds of the calls on the Fuse.js path: 0.8, which admits a score
\* of 1/10, and 0.95, which does not
ApproxThresholds == {DefaultThreshold, <<19, 20>>}

\* findSimilarEntitiesOptimized(entities, threshold, true) is called with
\* the large list
CallGrouperFuse(batchSize, threshold, fuse) ==
  /\ Quiet
  /\ batch.pc = "idle"
  /\ ~UsesExhaustivePath(LargeEntities, TRUE)
  /\ found' = [grouper |-> "findSimilarEntitiesOptimized", useAdvancedAlgorithm |-> TRUE,
               threshold |-> threshold, batchSize |-> batchSize, fuse |-> fuse,
               groups |-> findSimilarEntitiesFuse(LargeEntities, threshold, batchSize, fuse)]
  /\ UNCHANGED <<tags, docs, perf, now, run, merge, mergeCalls, prev, retries, scored, batch, rate, refresh>>

(***************************************************************************)
(* PaperlessService.makeRequest and waitForRateLimit.  Each caller is an   *)
(* async call; a step of a caller runs from one await to the next, as the  *)
(* event loop runs it, and the steps of different callers interleave.  A   *)
(* timer fires at its time or later.                                       *)
(***************************************************************************)
\* what an attempt can end in: a response, an error with status 429 or 5xx,
\* any other error
AttemptOutcomes == {"response", "retryLater", "otherError"}

\* a makeRequest that lets its loop run out without throwing
NeverExhausted(r) == FALSE

\* if (retries === 0) throw error
Exhausted(r) == r = 0

\* the state of the rate limiter after a request is sent at the current time
Sent(rt) ==
  [rt EXCEPT !.sinceLast = 0,
             !.sent = TRUE,
             !.gap = IF ~rt.sent THEN rt.gap
                     ELSE IF rt.gap = NoGap THEN rt.sinceLast
                     ELSE Min2(rt.gap, rt.sinceLast)]

\* this.lastRequestTime = Date.now() at the end of waitForRateLimit, then
\* this.client(config): the attempt is in flight
StartAttempt(rt, c) ==
  [Sent(rt) EXCEPT !.callers[c].pc = "inFlight",
                   !.callers[c].waits = @ + 1,
                   !.callers[c].attempts = @ + 1]

\* makeRequest is called: retries = 3, the loop is entered
CallMakeRequest(c) ==
  /\ rate.callers[c].pc = "idle"
  /\ rate' = [rate EXCEPT !.callers[c] = [IdleCaller EXCEPT !.pc = "rateLimit",
                                                            !.retries = MakeRequestAttempts]]
  /\ UNCHANGED <<tags, docs, perf, now, run, merge, mergeCalls, found, prev, retries, scored, batch, refresh>>

\* waitForRateLimit up to its await: with less than MIN_REQUEST_INTERVAL
\* since lastRequestTime the caller sleeps for the rest of the interval,
\* otherwise it goes on to send
WaitForRateLimit(c) ==
  /\ rate.callers[c].pc = "rateLimit"
  /\ LET timeSinceLastRequest == rate.sinceLast
     IN  rate' = IF timeSinceLastRequest < MIN_REQUEST_INTERVAL
                 THEN [rate EXCEPT !.callers[c].pc = "sleeping",
                                   !.callers[c].timer =
                                      MIN_REQUEST_INTERVAL - timeSinceLastRequest]
                 ELSE StartAttempt(rate, c)
  /\ UNCHANGED <<tags, docs, perf, now, run, merge, mergeCalls, found, prev, retries, scored, batch, refresh>>

\* the timer of waitForRateLimit fires: the caller goes on to send
RateLimitTimer(c) ==
  /\ rate.callers[c].pc = "sleeping"
  /\ rate.callers[c].timer = 0
  /\ rate' = StartAttempt(rate, c)
  /\ UNCHANGED <<tags, docs, perf, now, run, merge, mergeCalls, found, prev, retries, scored, batch, refresh>>

\* the attempt ends: return response, or the catch block
AttemptEnds(c, outcome) ==
  /\ rate.callers[c].pc = "inFlight"
  /\ LET me == rate.callers[c]
         outcomes == Append(me.outcomes, IF outcome = "response" THEN "response" ELSE "error")
         left == me.retries - 1
     IN  rate' =
           IF outcome = "response"
           THEN [rate EXCEPT !.callers[c].pc = "returned",
                             !.callers[c].outcomes = outcomes,
                             !.callers[c].result = [kind |-> "response", attempt |-> me.attempts]]
           ELSE IF Exhausted(left)
           THEN [rate EXCEPT !.callers[c].pc = "thrown",
                             !.callers[c].retries = left,
                             !.callers[c].outcomes = outcomes,
                             !.callers[c].result = [kind |-> "error", attempt |-> me.attempts]]
           ELSE [rate EXCEPT !.callers[c].pc = "retryWait",
                             !.callers[c].retries = left,
                             !.callers[c].outcomes = outcomes,
                             !.callers[c].timer =
                                IF outcome = "retryLater" THEN LongRetryWait
                                ELSE ShortRetryWait]
  /\ UNCHANGED <<tags, docs, perf, now, run, merge, mergeCalls, found, prev, retries, scored, batch, refresh>>

\* the timer of the catch block fires: while (retries > 0) goes round, or
\* the function ends without a return statement
RetryTimer(c) ==
  /\ rate.callers[c].pc = "retryWait"
  /\ rate.callers[c].timer = 0
  /\ rate' = IF rate.callers[c].retries > 0
             THEN [rate EXCEPT !.callers[c].pc = "rateLimit"]
             ELSE [rate EXCEPT !.callers[c].pc = "returned",
                               !.callers[c].result = [kind |-> "undefined", attempt |-> 0]]
  /\ UNCHANGED <<tags, docs, perf, now, run, merge, mergeCalls, found, prev, retries, scored, batch, refresh>>

\* the caller of makeRequest takes the result
RequestSettled(c) ==
  /\ rate.callers[c].pc \in {"returned", "thrown"}
  /\ rate' = [rate EXCEPT !.callers[c] = IdleCaller]
  /\ UNCHANGED <<tags, docs, perf, now, run, merge, mergeCalls, found, prev, retries, scored, batch, refresh>>

\* TickMs of time pass
Tick ==
  /\ rate' = [rate EXCEPT
       !.sinceLast = Min2(@ + TickMs, MIN_REQUEST_INTERVAL),
       !.callers = [c \in Callers |->
                      [@[c] EXCEPT !.timer = IF @ > TickMs THEN @ - TickMs ELSE 0]]]
  /\ UNCHANGED <<tags, docs, perf, now, run, merge, mergeCalls, found, prev, retries, scored, batch, refresh>>

(***************************************************************************)
(* PaperlessService.ensureTagCache.  A step of a caller runs from one      *)
(* await to the next; refreshTagCache runs in the background of its        *)
(* caller and settles with the outcome of its requests.                    *)
(***************************************************************************)
\* the refreshTagCache executions in progress
Running(rf) == {k \in 1..Len(rf.outcome) : rf.outcome[k] = "running"}

\* an ensureTagCache that does not look for a refresh in progress
NeverPending(rf) == FALSE

\* if (this.tagRefreshInProgress && this.tagRefreshPromise)
RefreshPending(rf) == rf.tagRefreshInProgress /\ rf.tagRefreshPromise # 0

\* ensureTagCache(forceRefresh) up to its await; stale is
\* (now - this.lastTagRefresh) > this.CACHE_LIFETIME
EnsureTagCache(c, forceRefresh, stale) ==
  /\ refresh.callers[c].pc = "idle"
  /\ refresh.calls < MaxEnsures
  /\ LET during == IF Running(refresh) = {} THEN 0 ELSE CHOOSE k \in Running(refresh) : TRUE
         arrived == [IdleEnsurer EXCEPT !.arrivedDuring = during, !.forceRefresh = forceRefresh]
         k == Len(refresh.outcome) + 1
     IN  refresh' =
           IF RefreshPending(refresh)
           THEN [refresh EXCEPT !.calls = @ + 1,
                                !.callers[c] = [arrived EXCEPT !.pc = "waiting",
                                                               !.awaits = refresh.tagRefreshPromise]]
           ELSE IF forceRefresh \/ ~refresh.cacheFilled \/ stale
           THEN [refresh EXCEPT !.calls = @ + 1,
                                !.tagRefreshInProgress = TRUE,
                                !.tagRefreshPromise = k,
                                !.outcome = Append(@, "running"),
                                !.callers[c] = [arrived EXCEPT !.pc = "refreshing", !.awaits = k]]
           ELSE [refresh EXCEPT !.calls = @ + 1,
                                !.callers[c] = [arrived EXCEPT !.pc = "returned"]]
  /\ UNCHANGED <<tags, docs, perf, now, run, merge, mergeCalls, found, prev, retries, scored, batch, rate>>

\* refreshTagCache number k ends: it returns after its last page, or it
\* rethrows the error of a page, with or without tags of earlier pages cached
RefreshSettles(k, ok, cachedSome) ==
  /\ k \in Running(refresh)
  /\ ok => cachedSome
  /\ refresh' = [refresh EXCEPT
       !.outcome[k] = IF ok THEN "fulfilled" ELSE "rejected",
       !.cacheFilled = @ \/ cachedSome]
  /\ UNCHANGED <<tags, docs, perf, now, run, merge, mergeCalls, found, prev, retries, scored, batch, rate>>

\* the finally callback of refreshTagCache number k
FinallyRuns(k) ==
  /\ k \in 1..Len(refresh.outcome)
  /\ refresh.outcome[k] # "running"
  /\ k \notin refresh.cleared
  /\ refresh' = [refresh EXCEPT !.tagRefreshInProgress = FALSE,
                                !.tagRefreshPromise = 0,
                                !.cleared = @ \cup {k}]
  /\ UNCHANGED <<tags, docs, perf, now, run, merge, mergeCalls, found, prev, retries, scored, batch, rate>>

\* await this.tagRefreshPromise ends: the caller returns, or throws the
\* error of the refresh
EnsureResumes(c) ==
  /\ refresh.callers[c].pc \in {"waiting", "refreshing"}
  /\ refresh.callers[c].awaits \in refresh.cleared
  /\ refresh' = [refresh EXCEPT !.callers[c].pc =
                    IF refresh.outcome[refresh.callers[c].awaits] = "fulfilled"
                    THEN "returned" ELSE "threw"]
  /\ UNCHANGED <<tags, docs, perf, now, run, merge, mergeCalls, found, prev, retries, scored, batch, rate>>

\* the caller of ensureTagCache goes on
EnsureSettled(c) ==
  /\ refresh.callers[c].pc \in {"returned", "threw"}
  /\ refresh' = [refresh EXCEPT !.callers[c] = IdleEnsurer]
  /\ UNCHANGED <<tags, docs, perf, now, run, merge, mergeCalls, found, prev, retries, scored, batch, rate>>

\* batchUpdateDocuments calls over the store in which document k has tag k
InitBatch ==
  /\ tags = FixedTags
  /\ docs = FixedDocs
  /\ InitCommon

\* grouper calls and runs over the named tag lists
InitNames ==
  /\ tags \in NamedTagLists
  /\ docs = FixedDocs
  /\ InitCommon

(***************************************************************************)
(* Specifications.                                                         *)
(***************************************************************************)
Next ==
  \/ \E svc \in Services, threshold \in Thresholds, adv \in BOOLEAN :
       StartRun(svc, threshold, adv)
  \/ GetTags
  \/ RunPlanEnhanced
  \/ RunPlanTagMerger
  \/ RunPlanConsolidation
  \/ RunCallMerge
  \/ MergeCollect
  \/ MergeIterate
  \/ RunAfterMerge
  \/ \E grouper \in Groupers, threshold \in Thresholds : CallGrouper(grouper, threshold)

Spec == Init /\ [][Next]_vars

NextMerge ==
  \/ \E svc \in Services, targetTagId \in DocTagIds, sources \in SUBSET DocTagIds :
       CallMergeTags(svc, targetTagId, sources)
  \/ MergeCollect
  \/ MergeIterate
  \/ MergeReturn
  \/ RetryMergeTags

SpecMerge == InitMerge /\ [][NextMerge]_vars

NextCache ==
  \/ \E scorer \in Scorers, str1 \in ScorerStrings, str2 \in ScorerStrings :
       CallScorer(scorer, str1, str2)
  \/ StartRun("enhanced", DefaultThreshold, FALSE)
  \/ GetTags
  \/ RunPlanEnhanced
  \/ RunReturn

SpecCache == InitCache /\ [][NextCache]_vars

NextNames ==
  \/ \E grouper \in Groupers, threshold \in Thresholds : CallGrouper(grouper, threshold)
  \/ \E threshold \in Thresholds : StartRun("enhanced", threshold, FALSE)
  \/ GetTags
  \/ RunPlanEnhanced
  \/ RunCallMerge
  \/ MergeCollect
  \/ MergeIterate
  \/ RunAfterMerge

SpecNames == InitNames /\ [][NextNames]_vars

NextBatch ==
  \/ \E batchSize \in BatchSizes, updates \in UpdateLists : CallBatchUpdate(batchSize, updates)
  \/ \E batchSize \in ApproxBatchSizes, threshold \in ApproxThresholds, fuse \in FuseTables :
       CallGrouperFuse(batchSize, threshold, fuse)
  \/ BatchUpdateOne
  \/ BatchReturn

SpecBatch == InitBatch /\ [][NextBatch]_vars

NextRequest ==
  \/ \E c \in Callers : CallMakeRequest(c)
  \/ \E c \in Callers : WaitForRateLimit(c)
  \/ \E c \in Callers : RateLimitTimer(c)
  \/ \E c \in Callers, outcome \in AttemptOutcomes : AttemptEnds(c, outcome)
  \/ \E c \in Callers : RetryTimer(c)
  \/ \E c \in Callers : RequestSettled(c)
  \/ Tick

SpecRequest == InitBatch /\ [][NextRequest]_vars

NextTagCache ==
  \/ \E c \in Callers, forceRefresh \in BOOLEAN, stale \in BOOLEAN :
       EnsureTagCache(c, forceRefresh, stale)
  \/ \E k \in 1..MaxEnsures, ok \in BOOLEAN, cachedSome \in BOOLEAN :
       RefreshSettles(k, ok, cachedSome)
  \/ \E k \in 1..MaxEnsures : FinallyRuns(k)
  \/ \E c \in Callers : EnsureResumes(c)
  \/ \E c \in Callers : EnsureSettled(c)

SpecTagCache == InitBatch /\ [][NextTagCache]_vars

(***************************************************************************)
(* Properties of mergeTags (SpecMerge).                                    *)
(***************************************************************************)
TagIdsOf(t) == SeqToSet(Ids(t))
Retiring(m) == SeqToSet(m.sourceTagIds)
Referenced(d, id) == \E k \in 1..Len(d) : id \in d[k]
MergeUnderWay == merge.pc \in {"listed", "returned"}

FailureFreeDocs(p) ==
  DocsAtCatch(p.docsAtCall,
              getDocuments(p.docsAtCall, p.sourceTagIds[1], PageCount(Len(p.docsAtCall)) + 1),
              p.targetTagId, p.sourceTagIds)
FailureFreeTags(p) == TagsAtCatch(p.tagsAtCall, p.sourceTagIds)

\* C5: when a mergeTags run was cut short by a failing step and mergeTags is
\* run again with the same plan and without a further failure, the second
\* run returns success and ends in the document and tag state of one
\* failure-free run of the plan
C5_ResumeSucceeds ==
  (/\ prev.valid
   /\ retries = 1
   /\ Len(prev.sourceTagIds) > 0
   /\ prev.firstExtFailed
   /\ ~prev.firstResult
   /\ ~prev.extFailed)
  => /\ prev.result
     /\ prev.docs = FailureFreeDocs(prev)
     /\ prev.tags = FailureFreeTags(prev)

(***************************************************************************)
(* Properties of the groupers and of the plan-and-merge run (Spec).        *)
(***************************************************************************)
Members(groups) == UNION {SeqToSet(groups[g]) : g \in 1..Len(groups)}

\* C6: every grouper returns groups that each have at least 2 members,
\* contain only input entities and are pairwise disjoint
C6_GroupsWellFormed ==
  found.grouper # "none" =>
    /\ \A g \in 1..Len(found.groups) : Len(found.groups[g]) >= 2
    /\ Members(found.groups) \subseteq SeqToSet(tags)
    /\ \A g, h \in 1..Len(found.groups) :
         g # h => SeqToSet(found.groups[g]) \cap SeqToSet(found.groups[h]) = {}
    /\ \A g \in 1..Len(found.groups) :
         \A a, b \in 1..Len(found.groups[g]) :
           a # b => found.groups[g][a] # found.groups[g][b]

CountOrZero(e) == IF e.document_count = Missing THEN 0 ELSE e.document_count

TargetIsEarliestMaximum(call) ==
  /\ \E t \in 1..Len(call.group) :
       /\ call.group[t].id = call.targetTagId
       /\ \A k \in 1..Len(call.group) : CountOrZero(call.group[k]) <= CountOrZero(call.group[t])
       /\ \A k \in 1..(t - 1) : CountOrZero(call.group[k]) < CountOrZero(call.group[t])
  /\ call.targetTagId \notin SeqToSet(call.sourceTagIds)
  /\ SeqToSet(call.sourceTagIds) \cup {call.targetTagId} = TagIdsOf(call.group)

\* C7: for every group the merge target of a run has the largest
\* document_count of the group (a missing count read as 0), the earliest
\* such member in group order; its id is not among the retired ids, and the
\* retired ids with the target's id are exactly the ids of the group
C7_TargetIsEarliestMaximum ==
  \A c \in 1..Len(mergeCalls) : TargetIsEarliestMaximum(mergeCalls[c])

\* a run has planned a group of three in which two members share the largest
\* count, a member has no count, and the target is not the first member
C7_Witness ==
  \E c \in 1..Len(mergeCalls) :
    LET group == mergeCalls[c].group
    IN  /\ Len(group) = 3
        /\ \E k \in 1..3 : group[k].document_count = Missing
        /\ \E a, b \in 1..3 :
             /\ a < b
             /\ CountOrZero(group[a]) = CountOrZero(group[b])
             /\ CountOrZero(group[a]) > CountOrZero(group[1])
             /\ mergeCalls[c].targetTagId = group[a].id

\* C8: a threshold outside [0,1] passed to findSimilarEntities,
\* findSimilarEntitiesOptimized or processAndMergeTagsOptimized is rejected:
\* no similarity comparison is made, no group is produced, no merge is
\* executed and the run does not resolve to a result
C8_ThresholdRejected ==
  /\ (/\ found.grouper \in {"findSimilarEntities", "findSimilarEntitiesOptimized"}
      /\ ~InUnitInterval(found.threshold))
     => (perf.comparisons = 0 /\ found.groups = <<>>)
  /\ (/\ run.svc = "enhanced"
      /\ run.pc \notin {"idle", "getTags", "gotTags"}
      /\ ~InUnitInterval(run.threshold))
     => /\ perf.comparisons = 0
        /\ run.groups = <<>>
        /\ mergeCalls = <<>>
        /\ run.outcome # "resolved"

\* C9: the top-level plan-and-merge operation of each service never rejects:
\* it resolves to a result object carrying mergeCount and mergeDetails
C9_NeverRejects ==
  /\ run.outcome # "rejected"
  /\ run.pc = "done" => run.outcome = "resolved"

\* C10: when a processAndMergeTagsOptimized run returns, every group found
\* by grouping was passed to mergeTags exactly once, in the order of the
\* sorted groups, whether or not the merges before it failed
C10_EveryGroupOnce ==
  (run.svc = "enhanced" /\ run.pc = "done") =>
    /\ Len(mergeCalls) = Len(run.groups)
    /\ \A g \in 1..Len(run.groups) :
         Cardinality({c \in 1..Len(mergeCalls) : mergeCalls[c].group = run.groups[g]}) = 1
    /\ \A c \in 1..Len(mergeCalls) :
         mergeCalls[c].index = c /\ mergeCalls[c].group = run.sortedGroups[c]

\* a run over more than ten groups, whose batches hold two groups, has
\* returned after every one of its merges failed
C10_Witness ==
  /\ run.svc = "enhanced"
  /\ run.pc = "done"
  /\ Len(run.groups) > ChunkDivisor
  /\ ChunkStep(Len(run.groups)) = 2
  /\ Len(mergeCalls) = Len(run.groups)
  /\ run.mergeCount = 0

\* the result object a finished run hands to its caller
RunResult(r) ==
  [mergeCount |-> r.mergeCount, mergeDetails |-> r.mergeDetails,
   error |-> r.error, stats |-> r.stats]

\* C11: when the merge of a plan failed during a plan-and-merge run, the
\* result returned to the caller reports it: an error, or a mergeDetails
\* entry that identifies the failed plan
C11_FailedPlanReported ==
  (run.svc = "enhanced" /\ run.pc = "done") =>
    \A c \in 1..Len(mergeCalls) :
      (mergeCalls[c].returned /\ ~mergeCalls[c].success) =>
        \/ RunResult(run).error
        \/ \E d \in 1..Len(RunResult(run).mergeDetails) :
             /\ RunResult(run).mergeDetails[d].targetTagId = mergeCalls[c].targetTagId
             /\ RunResult(run).mergeDetails[d].sourceTagIds = mergeCalls[c].sourceTagIds

\* C14: a failing tag-listing request of a run is retried, the failure is
\* seen only after the attempts of makeRequest are used up, and the run
\* then reports it and does not go on with the shortened list
C14_TransientFailureRetried ==
  (run.svc = "enhanced" /\ run.tagsFailed) =>
    /\ run.tagsAttempts = MakeRequestAttempts
    /\ run.pc = "done" => RunResult(run).error

\* C19: after a processAndMergeTagsOptimized run has completed, both
\* timestamps are set and stats.elapsedTime is (endTime - startTime) / 1000
\* with startTime taken when the run began
C19_ElapsedTimeIsDuration ==
  (run.svc = "enhanced" /\ run.pc = "done") =>
    /\ perf.startTime = run.startedAt
    /\ perf.endTime # NullTime
    /\ ~RunResult(run).stats.elapsedNull
    /\ ScoreEq(RunResult(run).stats.elapsedTime, <<perf.endTime - run.startedAt, 1000>>)

\* C12: in the optimized mergeTags a document that references several of
\* the retiring ids receives exactly one updateDocument call in the run, and
\* the call carries the full replacement set
C12_OneUpdatePerDocument ==
  (merge.pc = "returned" /\ merge.svc = "enhanced") =>
    \A k \in 1..Len(merge.docsAtCall) :
      Cardinality(merge.docsAtCall[k] \cap Retiring(merge)) >= 2 =>
        /\ Cardinality({u \in 1..Len(merge.updateCalls) : merge.updateCalls[u].id = k}) = 1
        /\ \A u \in 1..Len(merge.updateCalls) :
             merge.updateCalls[u].id = k =>
               merge.updateCalls[u].tags =
                 (merge.docsAtCall[k] \ Retiring(merge)) \cup {merge.targetTagId}

DeletedTags(before, after) == TagIdsOf(before) \ TagIdsOf(after)

IndexIn(E, e) == CHOOSE k \in 1..Len(E) : E[k] = e

\* the Dice similarity of the lower-cased names of E[i] and E[j] reaches th
SimilarNames(E, i, j, th) ==
  ScoreGE(compareTwoStrings(ToLowerCase(E[i].name), ToLowerCase(E[j].name)), th)

\* positions in E of the members of group g
MemberIndices(E, g) == {IndexIn(E, g[m]) : m \in 1..Len(g)}

\* entity j is unassigned when the scan reaches position i < j: it is in no
\* group whose seed comes before i
UnassignedAt(E, G, i, j) ==
  \A g \in 1..Len(G) : IndexIn(E, G[g][1]) < i => j \notin MemberIndices(E, G[g])

SeedBased(E, G, th) ==
  /\ \A g \in 1..Len(G) :
       /\ \A m \in 1..Len(G[g]) : \E k \in 1..Len(E) : E[k] = G[g][m]
       \* members keep input order, the seed first
       /\ \A m \in 1..(Len(G[g]) - 1) : IndexIn(E, G[g][m]) < IndexIn(E, G[g][m + 1])
       \* the seed was unassigned, and a later entity that was unassigned is a
       \* member if and only if it is similar to the seed
       /\ UnassignedAt(E, G, IndexIn(E, G[g][1]), IndexIn(E, G[g][1]))
       /\ \A j \in (IndexIn(E, G[g][1]) + 1)..Len(E) :
            j \in MemberIndices(E, G[g])
              <=> /\ UnassignedAt(E, G, IndexIn(E, G[g][1]), j)
                  /\ SimilarNames(E, IndexIn(E, G[g][1]), j, th)
  \* groups are emitted in seed order
  /\ \A g \in 1..(Len(G) - 1) : IndexIn(E, G[g][1]) < IndexIn(E, G[g + 1][1])
  \* an entity in no group found no later unassigned entity similar to it
  /\ \A i \in 1..Len(E) :
       (\A g \in 1..Len(G) : i \notin MemberIndices(E, G[g])) =>
         \A j \in (i + 1)..Len(E) :
           UnassignedAt(E, G, i, j) => ~SimilarNames(E, i, j, th)

\* C20: on the exhaustive path grouping is seed-based: in input order the
\* first unassigned entity seeds a group, a later unassigned entity joins it
\* if and only if its lower-cased name is similar to the seed's, members
\* keep input order and groups are emitted in seed order
C20_GroupingIsSeedBased ==
  found.grouper \in {"findSimilarEntities", "findSimilarEntitiesOptimized"} =>
    SeedBased(tags, found.groups, found.threshold)

\* a grouping left out an entity that is similar to a non-seed member of a
\* group but not to the group's seed
C20_Witness ==
  /\ found.grouper \in {"findSimilarEntities", "findSimilarEntitiesOptimized"}
  /\ \E g \in 1..Len(found.groups) :
       \E m \in MemberIndices(tags, found.groups[g]), j \in 1..Len(tags) :
         /\ m # IndexIn(tags, found.groups[g][1])
         /\ m < j
         /\ j \notin MemberIndices(tags, found.groups[g])
         /\ SimilarNames(tags, m, j, found.threshold)
         /\ ~SimilarNames(tags, IndexIn(tags, found.groups[g][1]), j, found.threshold)

(***************************************************************************)
(* Properties of the scorers and of the cache (SpecCache).                 *)
(***************************************************************************)
BeforeFirstRun == run.number = 0 /\ run.pc = "idle"

\* C15: after N calls to the cached scorers over M distinct unordered
\* string pairs, cacheAttempts = N and cacheHits = N - M
C15_CacheAccounting ==
  BeforeFirstRun =>
    /\ perf.cacheAttempts = scored.cached
    /\ perf.cacheHits = scored.cached - Cardinality(scored.pairs)

\* C16: the value a scorer has returned is the value it returns for the
\* swapped arguments, and it is 1 for identical arguments, also when the
\* value was served from the cache
C16_SymmetricAndReflexive ==
  (BeforeFirstRun /\ scored.last.scorer # "none") =>
    /\ ScoreEq(scored.last.value,
               Score(scored.last.scorer, perf, scored.last.str2, scored.last.str1).value)
    /\ scored.last.str1 = scored.last.str2 => ScoreEq(scored.last.value, One)

\* C17: the cache key of a scorer call is the key of the swapped arguments,
\* and no other unordered pair of strings has the same key
C17_CacheKeyUnambiguous ==
  scored.last.scorer \in CachedScorers =>
    /\ scored.last.key = getCacheKey(scored.last.str2, scored.last.str1)
    /\ \A a \in ScorerStrings, b \in ScorerStrings :
         getCacheKey(a, b) = scored.last.key => {a, b} = {scored.last.str1, scored.last.str2}

\* the comparisons a run over the listed tags makes on a fresh scorer state
FreshPlan(r) == findSimilarEntitiesOptimized(FreshPerf, r.tagsResponse, r.threshold)

\* C18: a processAndMergeTagsOptimized run has an empty cache and zero
\* counters until its first comparison, and the stats it returns count only
\* its own comparisons and cache hits
C18_RunStartsFresh ==
  run.svc = "enhanced" =>
    /\ run.pc \in {"getTags", "gotTags"} =>
         /\ perf.cache = <<>>
         /\ perf.comparisons = 0
         /\ perf.cacheHits = 0
         /\ perf.cacheAttempts = 0
    /\ run.pc = "done" =>
         /\ RunResult(run).stats.comparisons = FreshPlan(run).sc.comparisons
         /\ RunResult(run).stats.cacheHitRate = getPerformanceStats(FreshPlan(run).sc).cacheHitRate
         /\ perf.cache = FreshPlan(run).sc.cache

\* a second run has returned its stats; it was started with the cache and
\* the counters the first run and the scorer calls before it had left
C18_Witness ==
  /\ run.svc = "enhanced"
  /\ run.pc = "done"
  /\ run.number = 1
  /\ scored.cached > 0
  /\ run.perfAtCall.cache # <<>>
  /\ run.perfAtCall.comparisons > scored.cached
  /\ RunResult(run).stats.comparisons > 0

\* C27: between resets a call to a cached scorer returns the value its own
\* computation gives for the two arguments on an empty cache, whatever
\* scorer calls preceded it: calculateLevenshteinSimilarity returns
\* (maxLen - editDistance) / maxLen also after calculateDiceCoefficient was
\* called on the same pair
C27_CacheTransparent ==
  (BeforeFirstRun /\ scored.last.scorer \in CachedScorers) =>
    ScoreEq(scored.last.value,
            Score(scored.last.scorer, FreshPerf, scored.last.str1, scored.last.str2).value)

\* the ids a plan touches: its target and the ids it retires
PlanIds(call) == SeqToSet(call.sourceTagIds) \cup {call.targetTagId}

\* C28: the plans of one plan-and-merge run are pairwise disjoint: no tag id
\* is retired by two plans (or twice by one), and the target of a plan is
\* retired by no plan of the run
C28_PlansDisjoint ==
  /\ \A c \in 1..Len(mergeCalls) :
       /\ \A a, b \in 1..Len(mergeCalls[c].sourceTagIds) :
            a # b => mergeCalls[c].sourceTagIds[a] # mergeCalls[c].sourceTagIds[b]
       /\ mergeCalls[c].targetTagId \notin SeqToSet(mergeCalls[c].sourceTagIds)
  /\ \A c, d \in 1..Len(mergeCalls) :
       c # d => PlanIds(mergeCalls[c]) \cap PlanIds(mergeCalls[d]) = {}

\* a run has returned after it planned more than ten groups at a threshold
\* in [0,1], each plan with a target and a retiring id
C28_Witness ==
  /\ run.svc = "enhanced"
  /\ run.pc = "done"
  /\ InUnitInterval(run.threshold)
  /\ Len(mergeCalls) > ChunkDivisor
  /\ \A c \in 1..Len(mergeCalls) : Len(mergeCalls[c].sourceTagIds) > 0

\* the retiring ids of the plans of the run that have left the store
MergedAway == {id \in UNION {SeqToSet(mergeCalls[c].sourceTagIds) : c \in 1..Len(mergeCalls)} :
                 id \notin TagIdsOf(tags)}

\* a plan whose merge took place: its retiring ids have left the store
TookPlace(call) == SeqToSet(call.sourceTagIds) \cap TagIdsOf(tags) = {}

ListedReferencing(m, id) ==
  {m.response[r].id : r \in {q \in 1..Len(m.response) : id \in m.response[q].tags}}

SameLowerName(E, i, j) == ToLowerCase(E[i].name) = ToLowerCase(E[j].name)

\* E[i] and E[j] are members of one group of G
GroupedTogether(E, G, i, j) ==
  \E g \in 1..Len(G) : {E[i], E[j]} \subseteq SeqToSet(G[g])

\* the groups of Invoice, invoice, Receipt at threshold 0.8: [Invoice, invoice]
InvoiceGroups == <<SubSeq(InvoiceTags, 1, 2)>>

\* C21: at every threshold <= 1 the exhaustive grouping puts two entities
\* whose names are equal after lower-casing into one group; for Invoice (id
\* 1, 5 documents), invoice (id 2, 2 documents), Receipt (id 3, 1 document)
\* at threshold 0.8 the only group is [1, 2] and the only plan of a run
\* keeps id 1 and retires id 2
C21_CaseInsensitiveGrouping ==
  /\ (/\ found.grouper \in {"findSimilarEntities", "findSimilarEntitiesOptimized"}
      /\ ScoreGE(One, found.threshold))
     => /\ \A i, j \in 1..Len(tags) :
             (i < j /\ SameLowerName(tags, i, j)) =>
               GroupedTogether(tags, found.groups, i, j)
        /\ (tags = InvoiceTags /\ found.threshold = DefaultThreshold)
             => found.groups = InvoiceGroups
  /\ (/\ run.svc = "enhanced"
      /\ run.pc = "done"
      /\ ~run.tagsFailed
      /\ ScoreGE(One, run.threshold))
     => /\ \A i, j \in 1..Len(tags) :
             (i < j /\ SameLowerName(tags, i, j)) =>
               GroupedTogether(tags, run.groups, i, j)
        /\ (tags = InvoiceTags /\ run.threshold = DefaultThreshold)
             => /\ run.groups = InvoiceGroups
                /\ Len(mergeCalls) = 1
                /\ mergeCalls[1].targetTagId = 1
                /\ mergeCalls[1].sourceTagIds = <<2>>

\* the part of C21 about Invoice, invoice and Receipt alone
InvoiceScenario ==
  /\ (/\ found.grouper \in {"findSimilarEntities", "findSimilarEntitiesOptimized"}
      /\ tags = InvoiceTags /\ found.threshold = DefaultThreshold)
     => found.groups = InvoiceGroups
  /\ (/\ run.svc = "enhanced" /\ run.pc = "done" /\ ~run.tagsFailed
      /\ tags = InvoiceTags /\ run.threshold = DefaultThreshold)
     => /\ run.groups = InvoiceGroups
        /\ Len(mergeCalls) = 1
        /\ mergeCalls[1].targetTagId = 1
        /\ mergeCalls[1].sourceTagIds = <<2>>

(***************************************************************************)
(* Properties of batchUpdateDocuments (SpecBatch).                         *)
(***************************************************************************)
\* the positions of the updates of the batch that were applied / were not
Succeeded(b) == {u \in 1..Len(b.outcomes) : Patched(b.outcomes[u])}
Failed(b) == {u \in 1..Len(b.outcomes) : ~Patched(b.outcomes[u])}

\* C22: batchUpdateDocuments attempts every update of its input, also after
\* a failed one, and returns updatedCount = number of updates that
\* succeeded, one errors entry per failed update, updatedCount + |errors| =
\* |updates|, and success exactly when no update failed
C22_BatchAggregate ==
  batch.pc = "done" =>
    /\ batch.attempted = batch.updates
    /\ batch.results.updatedCount = Cardinality(Succeeded(batch))
    /\ Len(batch.results.errors) = Cardinality(Failed(batch))
    /\ batch.results.updatedCount + Len(batch.results.errors) = Len(batch.updates)
    /\ batch.results.success <=> Failed(batch) = {}

\* batchUpdateDocuments with weakly fair steps: a call that has started
\* keeps running its loop and returns
SpecBatchFair ==
  InitBatch /\ [][NextBatch]_vars /\ WF_vars(BatchUpdateOne) /\ WF_vars(BatchReturn)

\* a call on the Fuse.js path has returned its groups
FusePathReturned ==
  /\ found.grouper = "findSimilarEntitiesOptimized"
  /\ found.useAdvancedAlgorithm
  /\ "fuse" \in DOMAIN found

\* the groups the Fuse.js path finds with the whole list as one batch
OneBatchGroups ==
  findSimilarEntitiesFuse(LargeEntities, found.threshold, Len(LargeEntities), found.fuse)

\* C29 (groups): on the Fuse.js path the groups found are those found with
\* the whole list as a single batch, whatever the batch size.
\* C29 (attempts): the updates batchUpdateDocuments has attempted are the
\* first k entries of the input, in input order, and all of them at return.
C29_BatchingSafe ==
  /\ FusePathReturned => found.groups = OneBatchGroups
  /\ batch.pc # "idle" =>
       /\ batch.attempted = SubSeq(batch.updates, 1, Len(batch.attempted))
       /\ batch.pc = "done" => batch.attempted = batch.updates

EarlierFailed(me) ==
  \A k \in 1..(Len(me.outcomes) - 1) : me.outcomes[k] # "response"

\* C24: makeRequest makes at most 3 attempts; when it returns, it returns
\* the response of its first successful attempt; when it throws, it throws
\* the error of its third attempt after three failures; it never returns
\* without a response; waitForRateLimit has run before every attempt.
C24_MakeRequestBounded ==
  \A c \in Callers :
    LET me == rate.callers[c]
    IN  /\ me.attempts <= MakeRequestAttempts
        /\ me.waits = me.attempts
        /\ me.pc = "returned" =>
             /\ me.result.kind = "response"
             /\ me.result.attempt = Len(me.outcomes)
             /\ me.outcomes[Len(me.outcomes)] = "response"
             /\ EarlierFailed(me)
        /\ me.pc = "thrown" =>
             /\ me.result = [kind |-> "error", attempt |-> MakeRequestAttempts]
             /\ Len(me.outcomes) = MakeRequestAttempts
             /\ \A k \in 1..MakeRequestAttempts : me.outcomes[k] # "response"

\* a makeRequest call has thrown after three failed attempts while another
\* has returned the response of a later attempt than its first
C24_Witness ==
  /\ \E c \in Callers : rate.callers[c].pc = "thrown"
  /\ \E c \in Callers :
       rate.callers[c].pc = "returned" /\ rate.callers[c].result.attempt > 1

\* C26: any two requests sent through makeRequest start at least
\* MIN_REQUEST_INTERVAL apart, whatever the interleaving of the callers.
C26_RequestsSpaced ==
  rate.gap # NoGap => rate.gap >= MIN_REQUEST_INTERVAL

(***************************************************************************)
(* Properties of ensureTagCache (SpecTagCache).                            *)
(***************************************************************************)
\* every refreshTagCache started so far has settled and its finally
\* callback has run
AllCleared == \A k \in 1..Len(refresh.outcome) : k \in refresh.cleared

\* C30: at most one refreshTagCache is in progress at a time; a caller that
\* arrived while a refresh was in progress, with or without forceRefresh,
\* waits for that refresh and starts none; tagRefreshInProgress and
\* tagRefreshPromise are cleared once a refresh has settled, fulfilled or
\* rejected, and are set while one is in progress.
C30_SingleFlight ==
  /\ Cardinality(Running(refresh)) <= 1
  /\ \A c \in Callers :
       LET me == refresh.callers[c]
       IN  me.arrivedDuring # 0 =>
             /\ me.pc \in {"waiting", "returned", "threw"}
             /\ me.awaits = me.arrivedDuring
  /\ AllCleared => ~refresh.tagRefreshInProgress /\ refresh.tagRefreshPromise = 0
  /\ Running(refresh) # {} =>
       /\ refresh.tagRefreshInProgress
       /\ refresh.tagRefreshPromise \in Running(refresh)

\* a refresh was rejected and its flags were cleared; a later caller started
\* the second refresh, and a caller with forceRefresh that arrived while it
\* runs is waiting for it
C30_Witness ==
  /\ Len(refresh.outcome) = 2
  /\ refresh.outcome[1] = "rejected"
  /\ 1 \in refresh.cleared
  /\ refresh.outcome[2] = "running"
  /\ \E c \in Callers :
       /\ refresh.callers[c].pc = "waiting"
       /\ refresh.callers[c].forceRefresh
       /\ refresh.callers[c].arrivedDuring = 2
====
